---- MODULE Spec2Model ----
(***************************************************************************)
(* Control de ingreso a eventos (control_coliseo): the redemption route    *)
(* POST /ingreso and the cash-session (caja) route POST /generar-visitantes*)
(* as state machines over the database tables they read and write.        *)
(* Every handler is cut at its awaits on the database or on an external    *)
(* collaborator: concurrent requests interleave exactly at those points.   *)
(***************************************************************************)
EXTENDS Integers, Sequences, FiniteSets, TLC

VARIABLES
    codigoQR,        \* table codigoqr: id_codigo -> [codigo, tipo_qr, max_usos, usos_actual]
    ingreso,         \* table ingreso: sequence of rows [codigoqrId], in insertion order
    lectura,         \* POST /ingreso requests: r -> [pc, codigo, qr, resp]
    cajaTurno,       \* table caja_turno: id -> [abierto, abiertoPor, cerradoPor, cerradoAt]
    ventaAdicional,  \* table venta_adicional: sequence of rows [codigoId, cajaId, precio, cantidad]
    configuracion,   \* table configuracion: clave -> valor (a partial function)
    peticion,        \* POST /generar-visitantes: worker p -> the request it is handling
    reportes,        \* closing reports sendMail delivered: cajaId -> how many
    persona,         \* table persona: id_persona -> [cedula, correo, tipo_persona]
    importacion,     \* table importacion: id -> [total_registros, exitosos, fallidos, errores]
    solicitud,       \* requests on the other routes: s -> [pc, ruta, ..., resp]
    carga            \* the run of POST /importar: its rows, position, counters and events

vars == <<codigoQR, ingreso, lectura, cajaTurno, ventaAdicional, configuracion, peticion, reportes,
          persona, importacion, solicitud, carga>>

ingresoVars == <<codigoQR, ingreso, lectura>>
cajaVars == <<cajaTurno, ventaAdicional, configuracion, peticion, reportes>>
\* What neither POST /ingreso nor the cash sessions touch.
otrasVars == <<persona, importacion, solicitud, carga>>

(***************************************************************************)
(* Bounds                                                                  *)
(***************************************************************************)
NumLecturas == 3      \* POST /ingreso requests in a behaviour
MaxUsos == 2          \* largest max_usos of an issued token

Lecturas == 1..NumLecturas

NULL == "null"

\* What findUnique / findFirst give when no row matches (ids start at 1).
NoQR == [id_codigo |-> 0, max_usos |-> 0, usos_actual |-> 0]

\* Codes of the tokens issued before the gate opens, and a code nobody issued.
CodigosEmitidos == <<"EST-1", "VIS-2">>
CodigoDesconocido == "XXX-0"
CodigosLeidos == {CodigosEmitidos[i] : i \in DOMAIN CodigosEmitidos} \cup {CodigoDesconocido}

(***************************************************************************)
(* POST /ingreso                                                           *)
(***************************************************************************)

\* A variant of the lookup that falls back on the first row when no code matches.
findFirstCodigo(codigo) ==
    LET ids == IF \E i \in DOMAIN codigoQR : codigoQR[i].codigo = codigo
               THEN {i \in DOMAIN codigoQR : codigoQR[i].codigo = codigo}
               ELSE DOMAIN codigoQR
    IN  IF ids = {} THEN NoQR
        ELSE LET id == CHOOSE i \in ids : \A j \in ids : i <= j
             IN  [id_codigo |-> id, max_usos |-> codigoQR[id].max_usos,
                  usos_actual |-> codigoQR[id].usos_actual]

\* prisma.codigoQR.findUnique({ where: { codigo } }): the row, with its id, or NoQR for null.
findUniqueCodigo(codigo) ==
    IF \E id \in DOMAIN codigoQR : codigoQR[id].codigo = codigo
    THEN LET id == CHOOSE i \in DOMAIN codigoQR : codigoQR[i].codigo = codigo
         IN  [id_codigo |-> id, max_usos |-> codigoQR[id].max_usos,
              usos_actual |-> codigoQR[id].usos_actual]
    ELSE NoQR

\* A variant of the validation that lets a token with usos_actual = max_usos through.
AgotadoEstricto(qr) == qr.usos_actual > qr.max_usos

\* if (qr.max_usos !== null && qr.usos_actual >= qr.max_usos); max_usos is NOT NULL.
Agotado(qr) == qr.usos_actual >= qr.max_usos

\* A variant of the remaining-uses arithmetic that uses the count read before the update.
DisponiblesPrevio(updatedQR) == updatedQR.max_usos - (updatedQR.usos_actual - 1)

\* updatedQR.max_usos - updatedQR.usos_actual
Disponibles(updatedQR) == updatedQR.max_usos - updatedQR.usos_actual

SinRespuesta == [status |-> 0]
Respuesta404 == [status |-> 404, error |-> "QR no encontrado"]
Respuesta400 == [status |-> 400, error |-> "QR ya ha sido usado al maximo"]
Respuesta500 == [status |-> 500, error |-> "Error interno"]
RespuestaOk(updatedQR) ==
    [status |-> 200, disponibles |-> Disponibles(updatedQR), de |-> updatedQR.max_usos]

\* Requests are interchangeable: request r is issued after request r-1 was issued.
EnOrden(r) == IF r = 1 THEN TRUE ELSE lectura[r - 1].pc # "inicio"

\* Lines 6-20: read the body, look the code up, answer 404 or 400, or go on.
IngresoBuscar(r, codigo) ==
    /\ lectura[r].pc = "inicio"
    /\ EnOrden(r)
    /\ LET qr == findUniqueCodigo(codigo) IN
       lectura' = [lectura EXCEPT ![r] =
          IF qr = NoQR
          THEN [pc |-> "fin", codigo |-> codigo, qr |-> NoQR, resp |-> Respuesta404]
          ELSE IF Agotado(qr)
          THEN [pc |-> "fin", codigo |-> codigo, qr |-> qr, resp |-> Respuesta400]
          ELSE [pc |-> "crear", codigo |-> codigo, qr |-> qr, resp |-> SinRespuesta]]
    /\ UNCHANGED <<codigoQR, ingreso>>
    /\ UNCHANGED cajaVars
    /\ UNCHANGED otrasVars

\* Lines 23-28: prisma.ingreso.create with the token's id.
IngresoRegistrar(r) ==
    /\ lectura[r].pc = "crear"
    /\ lectura[r].qr.id_codigo \in DOMAIN codigoQR
    /\ ingreso' = Append(ingreso, [codigoqrId |-> lectura[r].qr.id_codigo])
    /\ lectura' = [lectura EXCEPT ![r].pc = "incrementar"]
    /\ UNCHANGED codigoQR
    /\ UNCHANGED cajaVars
    /\ UNCHANGED otrasVars

\* Lines 23-28 and 46-49: the store rejects the insert; the catch answers 500.
IngresoRegistrarRechazado(r) ==
    /\ lectura[r].pc = "crear"
    /\ lectura' = [lectura EXCEPT ![r].pc = "fin", ![r].resp = Respuesta500]
    /\ UNCHANGED <<codigoQR, ingreso>>
    /\ UNCHANGED cajaVars
    /\ UNCHANGED otrasVars

\* Lines 31-45: prisma.codigoQR.update increment 1 by id, then the success answer
\* computed from the row the update returns.
IngresoIncrementar(r) ==
    /\ lectura[r].pc = "incrementar"
    /\ lectura[r].qr.id_codigo \in DOMAIN codigoQR
    /\ LET id == lectura[r].qr.id_codigo
           updatedQR == [codigoQR[id] EXCEPT !.usos_actual = @ + 1]
       IN  /\ codigoQR' = [codigoQR EXCEPT ![id] = updatedQR]
           /\ lectura' = [lectura EXCEPT ![r].pc = "fin", ![r].resp = RespuestaOk(updatedQR)]
    /\ UNCHANGED ingreso
    /\ UNCHANGED cajaVars
    /\ UNCHANGED otrasVars

\* Lines 31-34 and 46-49: the store rejects the update; the catch answers 500.
\* The Ingreso row of lines 23-28 is already committed (no transaction spans both).
IngresoIncrementarRechazado(r) ==
    /\ lectura[r].pc = "incrementar"
    /\ lectura' = [lectura EXCEPT ![r].pc = "fin", ![r].resp = Respuesta500]
    /\ UNCHANGED <<codigoQR, ingreso>>
    /\ UNCHANGED cajaVars
    /\ UNCHANGED otrasVars

(***************************************************************************)
(* Requests on the other routes, and numbers as a JSON body carries them   *)
(***************************************************************************)
NumSolicitudes == 2   \* requests on the other routes in a behaviour

Solicitudes == 1..NumSolicitudes

\* Number(body?.x): a finite number, kept in halves so that Math.floor has something
\* to cut, or a value that is not finite (NaN for a missing or malformed field).
Medios(n) == [finito |-> TRUE, medios |-> n]
NoFinito == [finito |-> FALSE, medios |-> 0]
\* A whole number as a body carries it.
Entero(n) == Medios(2 * n)

\* Number.isFinite(x)
isFinite(x) == x.finito
\* Math.floor(x) for a finite x.
floor(x) == x.medios \div 2

\* The summary of no redemptions.
SinResumen ==
    [total |-> 0, estudiantes |-> 0, familiares |-> 0, adicionales |-> 0,
     ingresosAgrupados |-> <<>>]

\* The row counts of a cleanup that removed nothing.
NadaBorrado ==
    [personas |-> 0, codigos |-> 0, ingresos |-> 0, importaciones |-> 0, ventas |-> 0,
     cajas |-> 0]

\* NextResponse.json(..., { status }) of the routes below; maxUsos and usosActual are the
\* fields of the token a PATCH answers with, resumen the totals of the dashboard, removed
\* the row counts of a cleanup, codigo the code of a token POST /generar-qr issued.
Contesta(status, error) ==
    [status |-> status, error |-> error, maxUsos |-> 0, usosActual |-> 0,
     resumen |-> SinResumen, removed |-> NadaBorrado, codigo |-> ""]
SinContestar == Contesta(0, "")

SolicitudInicial ==
    [pc |-> "inicio", ruta |-> "ninguna", codigoId |-> 0, nuevoMaxUsos |-> 0,
     maxUsosParam |-> NoFinito, resp |-> SinContestar]

\* The request ends with resp; its locals are gone.
Contestar(s, resp) ==
    solicitud' = [solicitud EXCEPT ![s] = [SolicitudInicial EXCEPT !.pc = "fin", !.resp = resp]]

\* Requests are interchangeable: request s is issued after request s-1 was issued.
EnOrdenSolicitud(s) == IF s = 1 THEN TRUE ELSE solicitud[s - 1].pc # "inicio"

\* POST /importar has not been called: the locals of the handler before its first line,
\* the lines the stream has carried, the client reading them, and the counters as they
\* were when the client left.
CargaInicial ==
    [pc |-> "inicio", filas |-> <<>>, maxUsosFamiliares |-> 0, importLog |-> 0, index |-> 0,
     exitosos |-> 0, fallidos |-> 0, errores |-> <<>>, failedEmails |-> <<>>,
     studentsToEmail |-> 0, emailAttempts |-> 0, emailsSent |-> 0,
     personaId |-> 0, codigoGeneral |-> "", eventos |-> <<>>,
     cliente |-> "conectado", alCorte |-> [exitosos |-> 0, fallidos |-> 0]]

OtrasVacias ==
    /\ persona = <<>>
    /\ importacion = <<>>
    /\ solicitud = [s \in Solicitudes |-> SolicitudInicial]
    /\ carga = CargaInicial

(***************************************************************************)
(* POST /generar-visitantes: the cash sessions (caja)                      *)
(***************************************************************************)
NumTrabajadores == 2  \* requests on /generar-visitantes in flight at the same time
MaxCajas == 2         \* CajaTurno rows ever created
MaxVentas == 2        \* sale tokens ever issued
MaxCantidad == 2      \* largest cantidad of a 'generate' request
MaxReloj == 2         \* distinct readings of the wall clock

Trabajadores == 1..NumTrabajadores
Ahoras == 1..MaxReloj

PRECIO_KEY == "precio_boleto"
LIMIT_KEY == "limite_boletos"
DEFAULT_PRICE == 5
DEFAULT_LIMIT == 0

\* Signed-in callers (session.user.email) and the role their group maps to.
Usuarios == {"admin@iste", "caja1@iste"}
\* A variant of the mapping that makes every caller an administrator.
RolSiempreAdmin(email) == "admin"
Rol(email) == IF email = "admin@iste" THEN "admin" ELSE "financiero"

Max(S) == CHOOSE x \in S : \A y \in S : y <= x
\* AUTO_INCREMENT primary keys.
NuevoId(tabla) == IF DOMAIN tabla = {} THEN 1 ELSE Max(DOMAIN tabla) + 1

\* The cajaId a forceClose body carries: the id of a row, or an id past every row.
CajaIdsPedidos == 1..(MaxCajas + 1)

\* ensurePrecioUnitario, ensureLimiteBoletos: each key is created with its default when
\* it is absent, and left alone when it exists.
ensureConfiguracion(conf) ==
    [k \in DOMAIN conf \cup {PRECIO_KEY, LIMIT_KEY} |->
        IF k \in DOMAIN conf THEN conf[k]
        ELSE IF k = PRECIO_KEY THEN DEFAULT_PRICE ELSE DEFAULT_LIMIT]

\* A variant of the scope that ties every caller, the administrator too, to the
\* sessions it opened itself.
CajasActivasPropias(userEmail, role) ==
    {id \in DOMAIN cajaTurno : cajaTurno[id].abierto /\ cajaTurno[id].abiertoPor = userEmail}

\* obtenerCajaActiva's where clause, lines 73-79: the open sessions, all of them for an
\* administrator and for a caller without an email (role === "admin" || !userEmail),
\* those the caller opened otherwise. findFirst gives one of them (no orderBy), or null.
CajasActivas(userEmail, role) ==
    {id \in DOMAIN cajaTurno :
        /\ cajaTurno[id].abierto
        /\ (role = "admin" \/ userEmail = "" \/ cajaTurno[id].abiertoPor = userEmail)}

\* A variant of the sale query that forgets the where clause.
VentasDeTodas(cajaId) == ventaAdicional

\* prisma.ventaAdicional.findMany({ where: { cajaId }, orderBy: { createdAt: "asc" } }),
\* and the ventas relation a CajaTurno query includes.
VentasDe(cajaId) == SelectSeq(ventaAdicional, LAMBDA v : v.cajaId = cajaId)

RECURSIVE calcularTotales(_)
\* ventas.reduce((acc, venta) => acc + Number(venta.precio) * Number(venta.cantidad ?? 1), 0)
calcularTotales(ventas) ==
    IF ventas = <<>> THEN 0
    ELSE calcularTotales(SubSeq(ventas, 1, Len(ventas) - 1))
         + ventas[Len(ventas)].precio * ventas[Len(ventas)].cantidad

RECURSIVE calcularBoletos(_)
\* ventas.reduce((acc, venta) => acc + Number(venta.cantidad ?? 1), 0)
calcularBoletos(ventas) ==
    IF ventas = <<>> THEN 0
    ELSE calcularBoletos(SubSeq(ventas, 1, Len(ventas) - 1)) + ventas[Len(ventas)].cantidad

\* prisma.ventaAdicional.aggregate({ _sum: { cantidad: true } })
obtenerResumenGlobalVentas == calcularBoletos(ventaAdicional)

\* NextResponse.json({ error }, { status }); an exception nothing catches ends the
\* request with status 500.
RespError(status, error) ==
    [status |-> status, error |-> error, caja |-> 0, totalTickets |-> 0, totalRecaudado |-> 0,
     abiertas |-> {}, historial |-> {}, cierres |-> {}]

\* NextResponse.json({ caja: mapCaja(caja) }), lines 100-116: the row's id with
\* totalTickets and totalRecaudado of the Sales the query included.
RespCaja(id, ventas) ==
    [RespError(200, "") EXCEPT !.caja = id,
                               !.totalTickets = calcularBoletos(ventas),
                               !.totalRecaudado = calcularTotales(ventas)]

RespExito == RespError(200, "")
SinResp == RespError(0, "")

\* A worker with no request in hand.
Reposo ==
    [pc |-> "libre", accion |-> "ninguna", usuario |-> NULL, caja |-> 0,
     totalBoletos |-> 0, totalRecaudado |-> 0, codigoIds |-> {},
     cantidad |-> 0, precio |-> 0, resp |-> SinResp]

\* A request as the handler receives it.
Recibida(accion, usuario) == [Reposo EXCEPT !.accion = accion, !.usuario = usuario]

\* The handler returns resp; its locals are gone.
Responder(p, resp) ==
    peticion' = [peticion EXCEPT ![p] = [Reposo EXCEPT !.pc = "respondida", !.resp = resp]]

\* The answer is on the wire; the worker takes the next request.
Liberar(p) ==
    /\ peticion[p].pc = "respondida"
    /\ peticion' = [peticion EXCEPT ![p] = Reposo]
    /\ UNCHANGED <<cajaTurno, ventaAdicional, configuracion, reportes>>
    /\ UNCHANGED ingresoVars
    /\ UNCHANGED otrasVars

\* new Date(), Date.now(): the wall clock never reads less than a time already stored.
Ahora == {t \in Ahoras : \A id \in DOMAIN cajaTurno : cajaTurno[id].cerradoAt <= t}

Libre(p) == peticion[p].pc = "libre"
EnCurso(pcs) == Cardinality({q \in Trabajadores : peticion[q].pc \in pcs})

\* ---- case "open", lines 373-406: the existing-session check ----
AbrirLeer(p, usuario) ==
    /\ Libre(p)
    /\ Cardinality(DOMAIN cajaTurno) + EnCurso({"abrir_crear"}) < MaxCajas
    /\ configuracion' = ensureConfiguracion(configuracion)
    /\ IF CajasActivas(usuario, Rol(usuario)) # {}
       THEN Responder(p, RespError(400, IF Rol(usuario) = "admin"
                                        THEN "Ya existe una caja abierta"
                                        ELSE "Ya tienes una caja abierta actualmente."))
       ELSE /\ peticion' = [peticion EXCEPT ![p] =
                               [Recibida("open", usuario) EXCEPT !.pc = "abrir_crear"]]
    /\ UNCHANGED <<cajaTurno, ventaAdicional, reportes>>
    /\ UNCHANGED ingresoVars
    /\ UNCHANGED otrasVars

\* ---- case "open", lines 408-418: prisma.cajaTurno.create ----
AbrirCrear(p) ==
    /\ peticion[p].pc = "abrir_crear"
    /\ LET id == NuevoId(cajaTurno) IN
       /\ cajaTurno' = cajaTurno @@ (id :> [abierto |-> TRUE, abiertoPor |-> peticion[p].usuario,
                                            cerradoPor |-> NULL, cerradoAt |-> 0])
       /\ Responder(p, RespCaja(id, <<>>))
    /\ UNCHANGED <<ventaAdicional, configuracion, reportes>>
    /\ UNCHANGED ingresoVars
    /\ UNCHANGED otrasVars

\* The closing report buildClosingReportPdf lays out and sendClosingReport mails,
\* lines 177-261.
Reporte(pet) ==
    [cajaId |-> pet.caja, totalBoletos |-> pet.totalBoletos,
     totalRecaudado |-> pet.totalRecaudado, cerradoPor |-> pet.usuario]

SinReportes == <<>>

\* transporter.sendMail delivered the report rep.
Enviado(rep) ==
    [id \in DOMAIN reportes \cup {rep.cajaId} |->
        IF id = rep.cajaId
        THEN (IF id \in DOMAIN reportes THEN reportes[id] ELSE 0) + 1
        ELSE reportes[id]]

\* data: { abierto: false, cerradoAt: new Date(), cerradoPor: userEmail }
Cerrada(fila, usuario, ahora) ==
    [fila EXCEPT !.abierto = FALSE, !.cerradoAt = ahora, !.cerradoPor = usuario]

\* ---- case "close", lines 373-391 and 421-433: the caller's open session ----
CerrarLeer(p, usuario) ==
    /\ Libre(p)
    /\ configuracion' = ensureConfiguracion(configuracion)
    /\ LET cajas == CajasActivas(usuario, Rol(usuario)) IN
       IF cajas = {}
       THEN Responder(p, RespError(400, IF Rol(usuario) = "admin"
                                        THEN "No hay una caja abierta"
                                        ELSE "No tienes una caja abierta en curso."))
       ELSE /\ \E caja \in cajas :
                 peticion' = [peticion EXCEPT ![p] =
                     [Recibida("close", usuario) EXCEPT !.pc = "cerrar_ventas", !.caja = caja]]
    /\ UNCHANGED <<cajaTurno, ventaAdicional, reportes>>
    /\ UNCHANGED ingresoVars
    /\ UNCHANGED otrasVars

\* ---- case "close", lines 435-442: the session's Sales and their totals ----
CerrarVentas(p) ==
    /\ peticion[p].pc = "cerrar_ventas"
    /\ LET ventas == VentasDe(peticion[p].caja) IN
       peticion' = [peticion EXCEPT ![p].pc = "cerrar_reporte",
                                    ![p].totalBoletos = calcularBoletos(ventas),
                                    ![p].totalRecaudado = calcularTotales(ventas)]
    /\ UNCHANGED <<cajaTurno, ventaAdicional, configuracion, reportes>>
    /\ UNCHANGED ingresoVars
    /\ UNCHANGED otrasVars

\* ---- case "close", lines 444-451: the report is built and mailed ----
CerrarReporte(p) ==
    /\ peticion[p].pc = "cerrar_reporte"
    /\ reportes' = Enviado(Reporte(peticion[p]))
    /\ peticion' = [peticion EXCEPT ![p].pc = "cerrar_actualizar"]
    /\ UNCHANGED <<cajaTurno, ventaAdicional, configuracion>>
    /\ UNCHANGED ingresoVars
    /\ UNCHANGED otrasVars

\* ---- case "close", lines 444-451: buildClosingReportPdf or sendMail throws; nothing
\* in the handler catches it, the request ends with status 500 ----
CerrarReporteFalla(p) ==
    /\ peticion[p].pc = "cerrar_reporte"
    /\ Responder(p, RespError(500, "Internal Server Error"))
    /\ UNCHANGED <<cajaTurno, ventaAdicional, configuracion, reportes>>
    /\ UNCHANGED ingresoVars
    /\ UNCHANGED otrasVars

\* ---- case "close", lines 453-463: prisma.cajaTurno.update by id ----
CerrarActualizar(p, ahora) ==
    /\ peticion[p].pc = "cerrar_actualizar"
    /\ peticion[p].caja \in DOMAIN cajaTurno
    /\ LET id == peticion[p].caja IN
       /\ cajaTurno' = [cajaTurno EXCEPT ![id] = Cerrada(@, peticion[p].usuario, ahora)]
       /\ Responder(p, RespCaja(id, VentasDe(id)))
    /\ UNCHANGED <<ventaAdicional, configuracion, reportes>>
    /\ UNCHANGED ingresoVars
    /\ UNCHANGED otrasVars

\* ---- case "forceClose", lines 373-391 and 858-886: role check, the session by id with
\* its Sales, and their totals ----
ForzarLeer(p, usuario, cajaId) ==
    /\ Libre(p)
    /\ configuracion' = ensureConfiguracion(configuracion)
    /\ IF Rol(usuario) # "admin"
       THEN Responder(p, RespError(403, "No autorizado"))
       ELSE IF cajaId \notin DOMAIN cajaTurno \/ ~cajaTurno[cajaId].abierto
       THEN Responder(p, RespError(404, "Caja no encontrada o ya cerrada"))
       ELSE /\ peticion' = [peticion EXCEPT ![p] =
                   [Recibida("forceClose", usuario) EXCEPT
                       !.pc = "forzar_reporte", !.caja = cajaId,
                       !.totalBoletos = calcularBoletos(VentasDe(cajaId)),
                       !.totalRecaudado = calcularTotales(VentasDe(cajaId))]]
    /\ UNCHANGED <<cajaTurno, ventaAdicional, reportes>>
    /\ UNCHANGED ingresoVars
    /\ UNCHANGED otrasVars

\* ---- case "forceClose", lines 888-895: the report is built and mailed ----
ForzarReporte(p) ==
    /\ peticion[p].pc = "forzar_reporte"
    /\ reportes' = Enviado(Reporte(peticion[p]))
    /\ peticion' = [peticion EXCEPT ![p].pc = "forzar_actualizar"]
    /\ UNCHANGED <<cajaTurno, ventaAdicional, configuracion>>
    /\ UNCHANGED ingresoVars
    /\ UNCHANGED otrasVars

\* ---- case "forceClose", lines 888-895: the report throws, status 500 ----
ForzarReporteFalla(p) ==
    /\ peticion[p].pc = "forzar_reporte"
    /\ Responder(p, RespError(500, "Internal Server Error"))
    /\ UNCHANGED <<cajaTurno, ventaAdicional, configuracion, reportes>>
    /\ UNCHANGED ingresoVars
    /\ UNCHANGED otrasVars

\* ---- case "forceClose", lines 897-907: prisma.cajaTurno.update by id ----
ForzarActualizar(p, ahora) ==
    /\ peticion[p].pc = "forzar_actualizar"
    /\ peticion[p].caja \in DOMAIN cajaTurno
    /\ LET id == peticion[p].caja IN
       /\ cajaTurno' = [cajaTurno EXCEPT ![id] = Cerrada(@, peticion[p].usuario, ahora)]
       /\ Responder(p, RespCaja(id, VentasDe(id)))
    /\ UNCHANGED <<ventaAdicional, configuracion, reportes>>
    /\ UNCHANGED ingresoVars
    /\ UNCHANGED otrasVars

\* `VIS-ADD-${caja.id}-${Date.now()}`
CodigoVenta(cajaId, ahora) == "VIS-ADD-" \o ToString(cajaId) \o "-" \o ToString(ahora)

\* ---- case "generate", lines 373-391 and 534-707: the caller's open session, the
\* unit price, the global limit, then prisma.codigoQR.create (a code that exists already
\* breaks the unique index: status 500) and prisma.ventaAdicional.create. The request is
\* taken in one step, token and Sale together; the answer is the JSON or the ticket PDF,
\* both status 200 ----
Generar(p, usuario, cantidad, ahora) ==
    /\ Libre(p)
    /\ Cardinality(DOMAIN codigoQR) < MaxVentas
    /\ configuracion' = ensureConfiguracion(configuracion)
    /\ LET cajas == CajasActivas(usuario, Rol(usuario))
           limiteBoletos == configuracion'[LIMIT_KEY]
           precioUnitario == configuracion'[PRECIO_KEY]
           id == NuevoId(codigoQR)
       IN  IF cantidad <= 0
           THEN /\ Responder(p, RespError(400, "Debes indicar la cantidad de QR a generar"))
                /\ UNCHANGED <<codigoQR, ventaAdicional>>
           ELSE IF cajas = {}
           THEN /\ Responder(p, RespError(400, IF Rol(usuario) = "admin"
                                               THEN "Debes abrir la caja antes de generar QR"
                                               ELSE "Debes abrir tu caja antes de generar QR"))
                /\ UNCHANGED <<codigoQR, ventaAdicional>>
           ELSE IF limiteBoletos > 0 /\ obtenerResumenGlobalVentas + cantidad > limiteBoletos
           THEN /\ Responder(p, RespError(400, "No se pueden emitir mas boletos."))
                /\ UNCHANGED <<codigoQR, ventaAdicional>>
           ELSE \E caja \in cajas :
                   IF \E i \in DOMAIN codigoQR : codigoQR[i].codigo = CodigoVenta(caja, ahora)
                   THEN /\ Responder(p, RespError(500, "Internal Server Error"))
                        /\ UNCHANGED <<codigoQR, ventaAdicional>>
                   ELSE /\ codigoQR' = codigoQR @@
                               (id :> [codigo |-> CodigoVenta(caja, ahora), tipo_qr |-> "vis",
                                       max_usos |-> cantidad, usos_actual |-> 0])
                        /\ ventaAdicional' = Append(ventaAdicional,
                               [codigoId |-> id, cajaId |-> caja,
                                precio |-> precioUnitario, cantidad |-> cantidad])
                        /\ Responder(p, RespExito)
    /\ UNCHANGED <<cajaTurno, reportes>>
    /\ UNCHANGED <<ingreso, lectura>>
    /\ UNCHANGED otrasVars

InitCaja ==
    /\ codigoQR = <<>>
    /\ ingreso = <<>>
    /\ lectura = <<>>
    /\ cajaTurno = <<>>
    /\ ventaAdicional = <<>>
    /\ configuracion = <<>>
    /\ peticion = [p \in Trabajadores |-> Reposo]
    /\ reportes = SinReportes
    /\ OtrasVacias

NextCaja ==
    \E p \in Trabajadores :
        \/ \E usuario \in Usuarios : AbrirLeer(p, usuario)
        \/ AbrirCrear(p)
        \/ \E usuario \in Usuarios : CerrarLeer(p, usuario)
        \/ CerrarVentas(p)
        \/ CerrarReporte(p)
        \/ CerrarReporteFalla(p)
        \/ \E ahora \in Ahora : CerrarActualizar(p, ahora)
        \/ \E usuario \in Usuarios, cajaId \in CajaIdsPedidos : ForzarLeer(p, usuario, cajaId)
        \/ ForzarReporte(p)
        \/ ForzarReporteFalla(p)
        \/ \E ahora \in Ahora : ForzarActualizar(p, ahora)
        \/ \E usuario \in Usuarios, cantidad \in 1..MaxCantidad, ahora \in Ahora :
               Generar(p, usuario, cantidad, ahora)
        \/ Liberar(p)

\* Any interleaving of the steps of the requests in flight on /generar-visitantes.
SpecCaja == InitCaja /\ [][NextCaja]_vars

LecturaInicial == [pc |-> "inicio", codigo |-> NULL, qr |-> NoQR, resp |-> SinRespuesta]

\* The tokens issued before the event: usos_actual = 0, max_usos >= 1.
TokensEmitidos ==
    { [id \in DOMAIN CodigosEmitidos |->
          [codigo |-> CodigosEmitidos[id], tipo_qr |-> "vis",
           max_usos |-> m[id], usos_actual |-> 0]] :
      m \in [DOMAIN CodigosEmitidos -> 1..MaxUsos] }

CajaVacia ==
    /\ cajaTurno = <<>>
    /\ ventaAdicional = <<>>
    /\ configuracion = <<>>
    /\ peticion = [p \in Trabajadores |-> Reposo]
    /\ reportes = SinReportes

InitIngreso ==
    /\ codigoQR \in TokensEmitidos
    /\ ingreso = <<>>
    /\ lectura = [r \in Lecturas |-> LecturaInicial]
    /\ CajaVacia
    /\ OtrasVacias

NextIngreso ==
    \E r \in Lecturas :
        \/ \E codigo \in CodigosLeidos : IngresoBuscar(r, codigo)
        \/ IngresoRegistrar(r)
        \/ IngresoRegistrarRechazado(r)
        \/ IngresoIncrementar(r)
        \/ IngresoIncrementarRechazado(r)

\* Concurrent scanners: any interleaving of the requests' steps.
SpecIngreso == InitIngreso /\ [][NextIngreso]_vars

\* One scanner that waits for each answer before it sends the next request.
SinLecturaEnCurso == \A q \in Lecturas : lectura[q].pc \in {"inicio", "fin"}

NextIngresoSec ==
    \E r \in Lecturas :
        \/ \E codigo \in CodigosLeidos : SinLecturaEnCurso /\ IngresoBuscar(r, codigo)
        \/ IngresoRegistrar(r)
        \/ IngresoRegistrarRechazado(r)
        \/ IngresoIncrementar(r)
        \/ IngresoIncrementarRechazado(r)

SpecIngresoSec == InitIngreso /\ [][NextIngresoSec]_vars

(***************************************************************************)
(* PATCH /gestion-qr: the cap of a token                                   *)
(***************************************************************************)
\* Who calls: a signed-in user, or nobody (getServerSession gives null).
Llamantes == Usuarios \cup {NULL}

\* body.codigoId: an id of a row, an id past every row, zero, or no number at all.
CodigoIdsPedidos == {NoFinito} \cup {Entero(n) : n \in 0..(Len(CodigosEmitidos) + 1)}
\* body.maxUsos: every half from 0 to past the largest cap, or no number at all.
MaxUsosPedidos == {NoFinito} \cup {Medios(n) : n \in 0..(2 * MaxUsos + 1)}

\* A variant of the comparison that also refuses a cap equal to the uses made.
InferiorOIgual(nuevoMaxUsos, usos_actual) == nuevoMaxUsos <= usos_actual

\* if (nuevoMaxUsos < codigo.usos_actual)
Inferior(nuevoMaxUsos, usos_actual) == nuevoMaxUsos < usos_actual

\* The codigo object of the answer, lines 280-291.
ContestaCodigo(fila) ==
    [Contesta(200, "") EXCEPT !.maxUsos = fila.max_usos, !.usosActual = fila.usos_actual]

\* ---- lines 227-262: role, body, findUnique by id, the comparison with usos_actual ----
PatchBuscar(s, usuario, codigoId, maxUsosParam) ==
    /\ solicitud[s].pc = "inicio"
    /\ EnOrdenSolicitud(s)
    /\ IF usuario = NULL \/ Rol(usuario) # "admin"
       THEN Contestar(s, Contesta(403, "No autorizado"))
       ELSE IF ~isFinite(codigoId) \/ codigoId.medios <= 0
       THEN Contestar(s, Contesta(400, "Identificador de QR invalido"))
       ELSE IF ~isFinite(maxUsosParam) \/ maxUsosParam.medios <= 0
       THEN Contestar(s, Contesta(400, "El numero de entradas debe ser un entero positivo"))
       ELSE IF floor(codigoId) \notin DOMAIN codigoQR
       THEN Contestar(s, Contesta(404, "QR no encontrado"))
       ELSE IF Inferior(floor(maxUsosParam), codigoQR[floor(codigoId)].usos_actual)
       THEN Contestar(s, Contesta(400,
                "El nuevo limite no puede ser inferior a los usos ya registrados"))
       ELSE solicitud' = [solicitud EXCEPT ![s] =
                [SolicitudInicial EXCEPT !.pc = "actualizar", !.ruta = "gestion-qr",
                                         !.codigoId = floor(codigoId),
                                         !.maxUsosParam = maxUsosParam,
                                         !.nuevoMaxUsos = floor(maxUsosParam)]]
    /\ UNCHANGED <<codigoQR, ingreso, lectura, persona, importacion, carga>>
    /\ UNCHANGED cajaVars

\* ---- lines 264-291: prisma.codigoQR.update({ data: { max_usos } }) by id ----
PatchActualizar(s) ==
    /\ solicitud[s].pc = "actualizar"
    /\ solicitud[s].ruta = "gestion-qr"
    /\ solicitud[s].codigoId \in DOMAIN codigoQR
    /\ LET id == solicitud[s].codigoId
           actualizado == [codigoQR[id] EXCEPT !.max_usos = solicitud[s].nuevoMaxUsos]
       IN  /\ codigoQR' = [codigoQR EXCEPT ![id] = actualizado]
           /\ Contestar(s, ContestaCodigo(actualizado))
    /\ UNCHANGED <<ingreso, lectura, persona, importacion, carga>>
    /\ UNCHANGED cajaVars

\* ---- lines 264-277: the store rejects the update; nothing in the handler catches
\* it, the request ends with status 500 ----
PatchActualizarRechazado(s) ==
    /\ solicitud[s].pc = "actualizar"
    /\ solicitud[s].ruta = "gestion-qr"
    /\ Contestar(s, Contesta(500, "Internal Server Error"))
    /\ UNCHANGED <<codigoQR, ingreso, lectura, persona, importacion, carga>>
    /\ UNCHANGED cajaVars

NextPatch ==
    \E s \in Solicitudes :
        \/ \E usuario \in Llamantes, codigoId \in CodigoIdsPedidos, maxUsosParam \in MaxUsosPedidos :
               PatchBuscar(s, usuario, codigoId, maxUsosParam)
        \/ PatchActualizar(s)
        \/ PatchActualizarRechazado(s)

\* The gate in use while an administrator edits caps: any interleaving of the steps of
\* PATCH /gestion-qr requests with those of POST /ingreso requests that scan the first
\* token issued.
NextGestion ==
    \/ NextPatch
    \/ \E r \in Lecturas :
          \/ IngresoBuscar(r, CodigosEmitidos[1])
          \/ IngresoRegistrar(r)
          \/ IngresoRegistrarRechazado(r)
          \/ IngresoIncrementar(r)
          \/ IngresoIncrementarRechazado(r)

SpecGestion == InitIngreso /\ [][NextGestion]_vars

(***************************************************************************)
(* POST /generar-visitantes, case "deleteClosure"                          *)
(***************************************************************************)
\* Each Sale references the token created with it, so a Sale is known by its codigoId.
CodigosDe(cajaId) == {ventaAdicional[i].codigoId : i \in {j \in DOMAIN ventaAdicional : ventaAdicional[j].cajaId = cajaId}}

\* ON DELETE RESTRICT of ingreso.codigoqrId and of venta_adicional.codigoId: a token an
\* Ingreso row or a Sale references cannot go.
Referenciado(id) ==
    \/ \E i \in DOMAIN ingreso : ingreso[i].codigoqrId = id
    \/ \E j \in DOMAIN ventaAdicional : ventaAdicional[j].codigoId = id

\* ON DELETE RESTRICT of venta_adicional.cajaId: a session a Sale references cannot go.
CajaReferenciada(id) == \E j \in DOMAIN ventaAdicional : ventaAdicional[j].cajaId = id

\* The function f without the keys in ids.
SinClaves(f, ids) == [k \in DOMAIN f \ ids |-> f[k]]

\* ---- lines 373-391 and 771-800: role check, the closure by id with its Sales and
\* their tokens ----
BorrarLeer(p, usuario, cajaId) ==
    /\ Libre(p)
    /\ configuracion' = ensureConfiguracion(configuracion)
    /\ IF Rol(usuario) # "admin"
       THEN Responder(p, RespError(403, "No autorizado"))
       ELSE IF cajaId \notin DOMAIN cajaTurno \/ cajaTurno[cajaId].abierto
       THEN Responder(p, RespError(404, "Cierre no encontrado"))
       ELSE peticion' = [peticion EXCEPT ![p] =
               [Recibida("deleteClosure", usuario) EXCEPT
                   !.pc = IF CodigosDe(cajaId) = {} THEN "borrar_caja" ELSE "borrar_ventas",
                   !.caja = cajaId,
                   !.codigoIds = CodigosDe(cajaId) \cap DOMAIN codigoQR]]
    /\ UNCHANGED <<codigoQR, ingreso, lectura, cajaTurno, ventaAdicional, reportes>>
    /\ UNCHANGED otrasVars

\* ---- lines 802-804: prisma.ventaAdicional.deleteMany by the ids read ----
BorrarVentas(p) ==
    /\ peticion[p].pc = "borrar_ventas"
    /\ ventaAdicional' = SelectSeq(ventaAdicional,
                                   LAMBDA v : ~(v.cajaId = peticion[p].caja
                                                /\ v.codigoId \in peticion[p].codigoIds))
    /\ peticion' = [peticion EXCEPT ![p].pc = "borrar_codigos"]
    /\ UNCHANGED <<codigoQR, ingreso, lectura, cajaTurno, configuracion, reportes>>
    /\ UNCHANGED otrasVars

\* ---- lines 805-807: prisma.codigoQR.deleteMany by the ids read; one statement, which
\* the foreign key of ingreso refuses as a whole when a token was redeemed: nothing in
\* the handler catches it, the request ends with status 500 ----
BorrarCodigos(p) ==
    /\ peticion[p].pc = "borrar_codigos"
    /\ IF \E id \in peticion[p].codigoIds \cap DOMAIN codigoQR : Referenciado(id)
       THEN /\ Responder(p, RespError(500, "Internal Server Error"))
            /\ UNCHANGED codigoQR
       ELSE /\ codigoQR' = SinClaves(codigoQR, peticion[p].codigoIds)
            /\ peticion' = [peticion EXCEPT ![p].pc = "borrar_caja"]
    /\ UNCHANGED <<ingreso, lectura, cajaTurno, ventaAdicional, configuracion, reportes>>
    /\ UNCHANGED otrasVars

\* ---- lines 809-811: prisma.cajaTurno.delete by id, which throws when the row is gone
\* or a Sale still references it ----
BorrarCaja(p) ==
    /\ peticion[p].pc = "borrar_caja"
    /\ IF peticion[p].caja \in DOMAIN cajaTurno /\ ~CajaReferenciada(peticion[p].caja)
       THEN /\ cajaTurno' = SinClaves(cajaTurno, {peticion[p].caja})
            /\ Responder(p, RespExito)
       ELSE /\ Responder(p, RespError(500, "Internal Server Error"))
            /\ UNCHANGED cajaTurno
    /\ UNCHANGED <<codigoQR, ingreso, lectura, ventaAdicional, configuracion, reportes>>
    /\ UNCHANGED otrasVars

\* Who opened session id in the states the closures are deleted from: the administrator
\* first, the operator after (an operator may open while another caller's session is open).
Cajero(id) == IF id = 1 THEN "admin@iste" ELSE "caja1@iste"

\* After the event: sessions open or closed, each Sale with the token generate created
\* for it, some tokens redeemed once (one Ingreso row per use).
TablasTrasElEvento ==
    /\ \E abierto \in [1..MaxCajas -> BOOLEAN] :
          cajaTurno = [id \in 1..MaxCajas |->
              IF abierto[id]
              THEN [abierto |-> TRUE, abiertoPor |-> Cajero(id), cerradoPor |-> NULL, cerradoAt |-> 0]
              ELSE [abierto |-> FALSE, abiertoPor |-> Cajero(id),
                    cerradoPor |-> Cajero(id), cerradoAt |-> MaxReloj]]
    /\ \E n \in 0..MaxVentas :
          \E caja \in [1..n -> 1..MaxCajas], cantidad \in [1..n -> 1..MaxCantidad],
             usos \in [1..n -> 0..1] :
             /\ ventaAdicional = [i \in 1..n |->
                    [codigoId |-> i, cajaId |-> caja[i],
                     precio |-> DEFAULT_PRICE, cantidad |-> cantidad[i]]]
             /\ codigoQR = [i \in 1..n |->
                    [codigo |-> CodigoVenta(caja[i], i), tipo_qr |-> "vis",
                     max_usos |-> cantidad[i], usos_actual |-> usos[i]]]
             /\ LET usados == SelectSeq([i \in 1..n |-> i], LAMBDA i : usos[i] = 1)
                IN  ingreso = [k \in DOMAIN usados |-> [codigoqrId |-> usados[k]]]

InitBorrado ==
    /\ TablasTrasElEvento
    /\ lectura = <<>>
    /\ configuracion = ensureConfiguracion(<<>>)
    /\ peticion = [p \in Trabajadores |-> Reposo]
    /\ reportes = SinReportes
    /\ OtrasVacias

NextBorrado ==
    \E p \in Trabajadores :
        \/ \E usuario \in Usuarios, cajaId \in CajaIdsPedidos : BorrarLeer(p, usuario, cajaId)
        \/ BorrarVentas(p)
        \/ BorrarCodigos(p)
        \/ BorrarCaja(p)
        \/ Liberar(p)

\* Administrators deleting closures after the event, two requests at a time.
SpecBorrado == InitBorrado /\ [][NextBorrado]_vars

(***************************************************************************)
(* POST /generar-visitantes, case "generate", one await at a time          *)
(***************************************************************************)
\* The cantidad a generate body carries.
Cantidades == 0..MaxCantidad

\* A limite_boletos an administrator configured: no limit, or one that two Sales can pass.
LimitesConfigurados == {DEFAULT_LIMIT, MaxCantidad + 1}

\* ---- lines 534-580: cantidad, the caller's open session, the price, the limit and the
\* total sold so far ----
GenerarLeer(p, usuario, cantidad) ==
    /\ Libre(p)
    /\ Cardinality(DOMAIN codigoQR) + EnCurso({"generar_codigo"}) < MaxVentas
    /\ configuracion' = ensureConfiguracion(configuracion)
    /\ LET cajas == CajasActivas(usuario, Rol(usuario))
           limiteBoletos == configuracion'[LIMIT_KEY]
       IN  IF cantidad <= 0
           THEN Responder(p, RespError(400, "Debes indicar la cantidad de QR a generar"))
           ELSE IF cajas = {}
           THEN Responder(p, RespError(400, IF Rol(usuario) = "admin"
                                            THEN "Debes abrir la caja antes de generar QR"
                                            ELSE "Debes abrir tu caja antes de generar QR"))
           ELSE IF limiteBoletos > 0 /\ obtenerResumenGlobalVentas + cantidad > limiteBoletos
           THEN Responder(p, RespError(400, "No se pueden emitir mas boletos."))
           ELSE \E caja \in cajas :
                   peticion' = [peticion EXCEPT ![p] =
                       [Recibida("generate", usuario) EXCEPT
                           !.pc = "generar_codigo", !.caja = caja, !.cantidad = cantidad,
                           !.precio = configuracion'[PRECIO_KEY]]]
    /\ UNCHANGED <<cajaTurno, ventaAdicional, reportes>>
    /\ UNCHANGED ingresoVars
    /\ UNCHANGED otrasVars

\* ---- lines 585-593: prisma.codigoQR.create with the code of this millisecond; the
\* unique index on codigo refuses a code that exists, and nothing catches that ----
GenerarCodigo(p, ahora) ==
    /\ peticion[p].pc = "generar_codigo"
    /\ LET id == NuevoId(codigoQR)
           codigo == CodigoVenta(peticion[p].caja, ahora)
       IN  IF \E i \in DOMAIN codigoQR : codigoQR[i].codigo = codigo
           THEN /\ Responder(p, RespError(500, "Internal Server Error"))
                /\ UNCHANGED codigoQR
           ELSE /\ codigoQR' = codigoQR @@
                       (id :> [codigo |-> codigo, tipo_qr |-> "vis",
                               max_usos |-> peticion[p].cantidad, usos_actual |-> 0])
                /\ peticion' = [peticion EXCEPT ![p].pc = "generar_venta",
                                                ![p].codigoIds = {id}]
    /\ UNCHANGED <<ingreso, lectura, cajaTurno, ventaAdicional, configuracion, reportes>>
    /\ UNCHANGED otrasVars

\* ---- lines 598-607 and 689: prisma.ventaAdicional.create, then the answer ----
GenerarVenta(p) ==
    /\ peticion[p].pc = "generar_venta"
    /\ ventaAdicional' = Append(ventaAdicional,
           [codigoId |-> CHOOSE id \in peticion[p].codigoIds : TRUE, cajaId |-> peticion[p].caja,
            precio |-> peticion[p].precio, cantidad |-> peticion[p].cantidad])
    /\ Responder(p, RespExito)
    /\ UNCHANGED <<codigoQR, ingreso, lectura, cajaTurno, configuracion, reportes>>
    /\ UNCHANGED otrasVars

\* The operator's session is open and the limit is configured; nothing is sold yet.
InitLimite ==
    /\ cajaTurno = <<[abierto |-> TRUE, abiertoPor |-> "caja1@iste", cerradoPor |-> NULL, cerradoAt |-> 0]>>
    /\ \E limite \in LimitesConfigurados :
          configuracion = [ensureConfiguracion(<<>>) EXCEPT ![LIMIT_KEY] = limite]
    /\ ventaAdicional = <<>>
    /\ codigoQR = <<>>
    /\ ingreso = <<>>
    /\ lectura = <<>>
    /\ peticion = [p \in Trabajadores |-> Reposo]
    /\ reportes = SinReportes
    /\ OtrasVacias

NextLimite ==
    \E p \in Trabajadores :
        \/ \E usuario \in Usuarios, cantidad \in Cantidades : GenerarLeer(p, usuario, cantidad)
        \/ \E ahora \in Ahoras : GenerarCodigo(p, ahora)
        \/ GenerarVenta(p)
        \/ Liberar(p)

\* Sales at the booth, two requests at a time, under a limit nobody changes.
SpecLimite == InitLimite /\ [][NextLimite]_vars

(***************************************************************************)
(* GET /dashboard                                                          *)
(***************************************************************************)
NumCodigos == 2
MaxIngresos == 3
TiposDeQR == {"est", "fam", "vis"}

\* A variant of the flag that goes by the type of the token.
esAdicionalPorTipo(codigoqr) == codigoqr.tipo_qr = "vis"

\* esAdicional: codigoqr.ventas.length > 0, line 133.
esAdicional(codigoqr) == codigoqr.ventas # {}

\* prisma.ingreso.findMany({ where: {}, orderBy: { fecha: "desc" }, include }), lines
\* 40-60, for a request without a date: every row, the latest first, each with its token
\* and the Sales of the token. fecha is the row's place in the table (rows are appended
\* with fecha = now()).
findManyIngresos ==
    [k \in 1..Len(ingreso) |->
        LET i == Len(ingreso) + 1 - k
            id == ingreso[i].codigoqrId
        IN  [fecha |-> i,
             codigoqr |-> [id_codigo |-> id,
                           codigo |-> codigoQR[id].codigo,
                           tipo_qr |-> codigoQR[id].tipo_qr,
                           ventas |-> {j \in DOMAIN ventaAdicional :
                                          ventaAdicional[j].codigoId = id}]]]

\* Lines 114-141, the Map after the first k rows: one entry per token in the order the
\* tokens were first met, with the count of its rows and its latest fecha.
RECURSIVE agrupadosMap(_, _)
agrupadosMap(ingresos, k) ==
    IF k = 0 THEN <<>>
    ELSE LET previo == agrupadosMap(ingresos, k - 1)
             fila == ingresos[k]
             existente == {j \in DOMAIN previo : previo[j].id_codigo = fila.codigoqr.id_codigo}
         IN  IF existente = {}
             THEN Append(previo, [id_codigo |-> fila.codigoqr.id_codigo,
                                  codigo |-> fila.codigoqr.codigo,
                                  tipo |-> fila.codigoqr.tipo_qr,
                                  totalIngresos |-> 1,
                                  ultimaLectura |-> fila.fecha,
                                  esAdicional |-> esAdicional(fila.codigoqr)])
             ELSE LET j == CHOOSE e \in existente : TRUE
                  IN  [previo EXCEPT ![j].totalIngresos = @ + 1,
                                     ![j].ultimaLectura = Max({@, fila.fecha})]

\* A variant of the buckets in which a student token counts once however often it was
\* read.
RECURSIVE CubetasSinRepetidas(_, _)
CubetasSinRepetidas(registros, k) ==
    IF k > Len(registros)
    THEN [estudiantes |-> 0, familiares |-> 0, adicionales |-> 0]
    ELSE LET resto == CubetasSinRepetidas(registros, k + 1)
             registro == registros[k]
         IN  IF registro.esAdicional
             THEN [resto EXCEPT !.adicionales = @ + registro.totalIngresos]
             ELSE IF registro.tipo = "est"
             THEN [resto EXCEPT !.estudiantes = @ + 1]
             ELSE [resto EXCEPT !.familiares = @ + registro.totalIngresos]

\* Lines 147-167: what the entries from the k-th on add to each bucket.
RECURSIVE Cubetas(_, _)
Cubetas(registros, k) ==
    IF k > Len(registros)
    THEN [estudiantes |-> 0, familiares |-> 0, adicionales |-> 0]
    ELSE LET resto == Cubetas(registros, k + 1)
             registro == registros[k]
             totalIngresos == registro.totalIngresos
         IN  IF registro.esAdicional
             THEN [resto EXCEPT !.adicionales = @ + totalIngresos]
             ELSE IF registro.tipo = "est"
             THEN [resto EXCEPT !.estudiantes = @ + 1,
                                !.familiares = @ + (IF totalIngresos > 1
                                                    THEN totalIngresos - 1 ELSE 0)]
             ELSE [resto EXCEPT !.familiares = @ + totalIngresos]

\* resumirIngresos, lines 113-178.
resumirIngresos(ingresos) ==
    LET ingresosAgrupados == SortSeq(agrupadosMap(ingresos, Len(ingresos)),
                                     LAMBDA a, b : a.ultimaLectura > b.ultimaLectura)
        cubetas == Cubetas(ingresosAgrupados, 1)
    IN  [total |-> cubetas.estudiantes + cubetas.familiares + cubetas.adicionales,
         estudiantes |-> cubetas.estudiantes,
         familiares |-> cubetas.familiares,
         adicionales |-> cubetas.adicionales,
         ingresosAgrupados |-> ingresosAgrupados]

\* ---- GET, lines 31-94, without a date: the summary of every redemption ----
Dashboard(s) ==
    /\ solicitud[s].pc = "inicio"
    /\ EnOrdenSolicitud(s)
    /\ Contestar(s, [Contesta(200, "") EXCEPT !.resumen = resumirIngresos(findManyIngresos)])
    /\ UNCHANGED <<codigoQR, ingreso, lectura, persona, importacion, carga>>
    /\ UNCHANGED cajaVars

\* During the event: tokens of any type, some of them sold at the booth (the schema lets
\* a Sale reference a token of any type), and the redemptions made so far.
InitDashboard ==
    /\ \E tipo \in [1..NumCodigos -> TiposDeQR], vendidos \in SUBSET (1..NumCodigos) :
          /\ \E n \in 0..MaxIngresos : \E leidos \in [1..n -> 1..NumCodigos] :
                /\ ingreso = [i \in 1..n |-> [codigoqrId |-> leidos[i]]]
                /\ codigoQR = [id \in 1..NumCodigos |->
                       [codigo |-> "QR-" \o ToString(id), tipo_qr |-> tipo[id],
                        max_usos |-> MaxIngresos,
                        usos_actual |-> Cardinality({i \in 1..n : leidos[i] = id})]]
          /\ LET ids == SelectSeq([id \in 1..NumCodigos |-> id], LAMBDA id : id \in vendidos)
             IN  ventaAdicional = [k \in DOMAIN ids |->
                     [codigoId |-> ids[k], cajaId |-> 1,
                      precio |-> DEFAULT_PRICE, cantidad |-> MaxIngresos]]
    /\ cajaTurno = <<[abierto |-> TRUE, abiertoPor |-> "caja1@iste", cerradoPor |-> NULL, cerradoAt |-> 0]>>
    /\ lectura = <<>>
    /\ configuracion = ensureConfiguracion(<<>>)
    /\ peticion = [p \in Trabajadores |-> Reposo]
    /\ reportes = SinReportes
    /\ OtrasVacias

NextDashboard == \E s \in Solicitudes : Dashboard(s)

\* The dashboard is read while the tables stay as they are.
SpecDashboard == InitDashboard /\ [][NextDashboard]_vars

(***************************************************************************)
(* POST /importar                                                          *)
(***************************************************************************)
MaxFilas == 2
MaxImportaciones == 1
EMAIL_BATCH_SIZE == 150
EMAIL_BATCH_DELAY_MS == 20000

\* The cells of a row, as the characters typed into the sheet. An empty cell is <<>>,
\* and so is the null the helpers below return.
CedulasDeCelda == {<<>>, <<"1", "-", "7">>}
CorreosDeCelda ==
    {<<>>, <<"a", "@", "b", ".", "c">>, <<" ", "a", "@", "b", ".", "c">>, <<"a", "@", "b">>}
TiposDeCelda == {"", "fam", "VIS"}
FilasPosibles == [cedula : CedulasDeCelda, correo : CorreosDeCelda, tipo : TiposDeCelda]
Archivos == UNION {[1..n -> FilasPosibles] : n \in 0..MaxFilas}

\* String.prototype.trim
RECURSIVE trimInicio(_)
trimInicio(s) == IF s # <<>> /\ Head(s) = " " THEN trimInicio(Tail(s)) ELSE s
RECURSIVE trimFin(_)
trimFin(s) == IF s # <<>> /\ s[Len(s)] = " " THEN trimFin(SubSeq(s, 1, Len(s) - 1)) ELSE s
trim(s) == trimFin(trimInicio(s))

\* extractFirstValue, lines 38-48: the cell, or null when it is blank.
extractFirstValue(celda) == IF trim(celda) = <<>> THEN <<>> ELSE celda

\* normalizeCedula, lines 50-58: the digits of the cell.
normalizeCedula(value) ==
    SelectSeq(trim(value), LAMBDA c : c \in {"0", "1", "2", "3", "4", "5", "6", "7", "8", "9"})

\* normalizeEmail, lines 60-64.
normalizeEmail(value) == trim(value)

\* String.prototype.toLowerCase on the cells above.
toLowerCase(tipo) == IF tipo = "VIS" THEN "vis" ELSE tipo

\* resolveTipoPersona, lines 66-71, of the cell or of "est" when the cell is blank.
resolveTipoPersona(tipo) ==
    LET normalized == toLowerCase(IF tipo = "" THEN "est" ELSE tipo)
    IN  IF normalized \in {"fam", "familiar"} THEN "familiar"
        ELSE IF normalized \in {"vis", "visitante"} THEN "visitante"
        ELSE "estudiante"

\* [^\s@]+
SinEspacioNiArroba(s) == s # <<>> /\ \A i \in DOMAIN s : s[i] \notin {" ", "@"}

\* A variant of the pattern that accepts a domain without a dot.
EMAIL_REGEX_SinPunto(s) ==
    \E i \in DOMAIN s :
        /\ s[i] = "@"
        /\ SinEspacioNiArroba(SubSeq(s, 1, i - 1))
        /\ SinEspacioNiArroba(SubSeq(s, i + 1, Len(s)))

\* EMAIL_REGEX.test, line 20: /^[^\s@]+@[^\s@]+\.[^\s@]+$/
EMAIL_REGEX(s) ==
    \E i \in DOMAIN s, j \in DOMAIN s :
        /\ i < j
        /\ s[i] = "@"
        /\ s[j] = "."
        /\ SinEspacioNiArroba(SubSeq(s, 1, i - 1))
        /\ SinEspacioNiArroba(SubSeq(s, i + 1, j - 1))
        /\ SinEspacioNiArroba(SubSeq(s, j + 1, Len(s)))

\* The locals of the row in hand, lines 144-152.
FilaActual == carga.filas[carga.index + 1]
cedulaStr == normalizeCedula(extractFirstValue(FilaActual.cedula))
correoStr == normalizeEmail(extractFirstValue(FilaActual.correo))
tipo_persona == resolveTipoPersona(FilaActual.tipo)

\* studentsToEmail, lines 111-118.
studentsToEmail(filas) ==
    Cardinality({i \in DOMAIN filas :
        /\ resolveTipoPersona(filas[i].tipo) = "estudiante"
        /\ LET correo == normalizeEmail(extractFirstValue(filas[i].correo))
           IN  correo # <<>> /\ EMAIL_REGEX(correo)})

\* One line of the stream.
Evento(type) ==
    [type |-> type, fila |-> 0, reason |-> "", processed |-> 0, total |-> 0,
     exitosos |-> 0, fallidos |-> 0, failedEmails |-> <<>>, delayMs |-> 0]

\* A variant of the stream that delivers every line twice.
sendEventDosVeces(c, evento) == [c EXCEPT !.eventos = Append(Append(@, evento), evento)]

\* sendEvent, lines 124-126: controller.enqueue of the event as one line of JSON.
sendEvent(c, evento) == [c EXCEPT !.eventos = Append(@, evento)]

\* failedEmails.push
FalloDeCorreo(c, reason) ==
    [c EXCEPT !.failedEmails =
        Append(@, [fila |-> c.index + 2, email |-> correoStr, reason |-> reason])]

\* failedEmails.push and the 'email-failed' event that follows it.
EmailFallido(c, reason) ==
    sendEvent(FalloDeCorreo(c, reason),
              [Evento("email-failed") EXCEPT !.fila = c.index + 2, !.reason = reason])

\* The stream was cancelled: controller.enqueue throws, and so does sendEvent.
Cancelado == carga.cliente = "cancelado"

ErrorDeFila(c, motivo) ==
    [c EXCEPT !.errores = Append(@, [fila |-> c.index + 2, motivo |-> motivo])]

\* Lines 411-415, and on to the next row.
FinDeFila(c, rowHadFailure) ==
    [c EXCEPT !.fallidos = IF rowHadFailure THEN @ + 1 ELSE @,
              !.exitosos = IF rowHadFailure THEN @ ELSE @ + 1,
              !.index = @ + 1, !.pc = "fila", !.personaId = 0, !.codigoGeneral = ""]

\* A variant of the handler whose catch ends the import at the failed row.
FilaFallidaDetiene(c, motivo) ==
    [ErrorDeFila(c, motivo) EXCEPT !.fallidos = @ + 1, !.pc = "terminada"]

\* catch (filaErr), lines 416-441, and on to the next row.
FilaFallida(c, motivo) ==
    [ErrorDeFila(c, motivo) EXCEPT !.fallidos = @ + 1, !.index = @ + 1, !.pc = "fila",
                                    !.personaId = 0, !.codigoGeneral = ""]

\* `EST-${persona.id_persona}-${Date.now().toString().slice(-6)}`, and VIS-, FAM-: ahora
\* is the last six digits of the clock.
CodigoImportado(tipo, id_persona, ahora) ==
    (IF tipo = "estudiante" THEN "EST-" ELSE IF tipo = "visitante" THEN "VIS-" ELSE "FAM-")
        \o ToString(id_persona) \o "-" \o ToString(ahora)

\* ---- lines 73-136: the sheet is parsed, the log row created, 'start' sent ----
ImportarInicio(filas, maxUsosFamiliares) ==
    /\ carga.pc \in {"inicio", "terminada"}
    /\ Len(importacion) < MaxImportaciones
    /\ importacion' = Append(importacion,
           [total_registros |-> 0, exitosos |-> 0, fallidos |-> 0, errores |-> <<>>])
    /\ carga' = sendEvent([CargaInicial EXCEPT
                               !.pc = "fila", !.filas = filas,
                               !.maxUsosFamiliares = maxUsosFamiliares,
                               !.importLog = Len(importacion) + 1,
                               !.studentsToEmail = studentsToEmail(filas)],
                          [Evento("start") EXCEPT !.total = Len(filas)])
    /\ UNCHANGED <<persona, solicitud>>
    /\ UNCHANGED ingresoVars
    /\ UNCHANGED cajaVars

\* ---- lines 139-181: the next row; a malformed email ends it. On a cancelled stream
\* sendEvent throws after fallidos++ and failedEmails.push: catch (filaErr) counts the
\* row once more ----
FilaValidar ==
    /\ carga.pc = "fila"
    /\ carga.index < Len(carga.filas)
    /\ IF correoStr # <<>> /\ ~EMAIL_REGEX(correoStr) /\ Cancelado
       THEN carga' = FilaFallida(FalloDeCorreo([carga EXCEPT !.fallidos = @ + 1],
                                               "Correo con formato invalido"),
                                 "Error procesando fila")
       ELSE IF correoStr # <<>> /\ ~EMAIL_REGEX(correoStr)
       THEN carga' = [ErrorDeFila(EmailFallido([carga EXCEPT !.fallidos = @ + 1],
                                               "Correo con formato invalido"),
                                  "Correo invalido")
                         EXCEPT !.index = @ + 1]
       ELSE carga' = [carga EXCEPT !.pc = "persona"]
    /\ UNCHANGED <<persona, importacion, solicitud>>
    /\ UNCHANGED ingresoVars
    /\ UNCHANGED cajaVars

\* ---- lines 183-210: the person of the row, found by cedula and updated, or created ----
FilaPersona ==
    /\ carga.pc = "persona"
    /\ LET existentes == {i \in DOMAIN persona : cedulaStr # <<>> /\ persona[i].cedula = cedulaStr}
       IN  IF existentes = {}
           THEN /\ persona' = Append(persona, [cedula |-> cedulaStr, correo |-> correoStr,
                                               tipo_persona |-> tipo_persona])
                /\ carga' = [carga EXCEPT !.pc = "codigo", !.personaId = Len(persona) + 1]
           ELSE LET id == CHOOSE i \in existentes : TRUE
                IN  /\ persona' = [persona EXCEPT
                           ![id].correo = IF correoStr # <<>> THEN correoStr ELSE @,
                           ![id].tipo_persona = tipo_persona]
                    /\ carga' = [carga EXCEPT !.pc = "codigo", !.personaId = id]
    /\ UNCHANGED <<importacion, solicitud>>
    /\ UNCHANGED ingresoVars
    /\ UNCHANGED cajaVars

\* The store rejects a statement of lines 183-210: catch (filaErr).
FilaPersonaRechazado ==
    /\ carga.pc = "persona"
    /\ carga' = FilaFallida(carga, "Error procesando fila")
    /\ UNCHANGED <<persona, importacion, solicitud>>
    /\ UNCHANGED ingresoVars
    /\ UNCHANGED cajaVars

\* ---- lines 212-231 and 365-415: the token of the row is created (the unique index on
\* codigo refuses a code that exists), the image of a student's token is rendered; on a
\* cancelled stream the 'email-failed' event of a student without email throws ----
FilaCodigo(ahora, png) ==
    /\ carga.pc = "codigo"
    /\ LET codigo == CodigoImportado(tipo_persona, carga.personaId, ahora)
           creado == codigoQR @@
               (NuevoId(codigoQR) :>
                   [codigo |-> codigo,
                    tipo_qr |-> IF tipo_persona = "estudiante" THEN "est"
                                ELSE IF tipo_persona = "visitante" THEN "vis" ELSE "fam",
                    max_usos |-> IF tipo_persona = "estudiante"
                                 THEN 1 + Max({0, carga.maxUsosFamiliares}) ELSE 1,
                    usos_actual |-> 0])
       IN  IF \E i \in DOMAIN codigoQR : codigoQR[i].codigo = codigo
           THEN /\ carga' = FilaFallida(carga, "Error procesando fila")
                /\ UNCHANGED codigoQR
           ELSE /\ codigoQR' = creado
                /\ IF tipo_persona # "estudiante"
                   THEN carga' = FinDeFila(carga, FALSE)
                   ELSE IF ~png
                   THEN carga' = FilaFallida(carga, "Error procesando fila")
                   ELSE IF correoStr # <<>> /\ EMAIL_REGEX(correoStr)
                   THEN carga' = [carga EXCEPT !.pc = "correo", !.codigoGeneral = codigo]
                   ELSE IF Cancelado
                   THEN carga' = FilaFallida(FalloDeCorreo(carga, "Sin correo disponible"),
                                             "Error procesando fila")
                   ELSE carga' = FinDeFila(EmailFallido(carga, "Sin correo disponible"), TRUE)
    /\ UNCHANGED <<ingreso, lectura, persona, importacion, solicitud>>
    /\ UNCHANGED cajaVars

\* The store rejects prisma.codigoQR.create for another reason: catch (filaErr).
FilaCodigoRechazado ==
    /\ carga.pc = "codigo"
    /\ carga' = FilaFallida(carga, "Error procesando fila")
    /\ UNCHANGED <<persona, importacion, solicitud>>
    /\ UNCHANGED ingresoVars
    /\ UNCHANGED cajaVars

\* ---- lines 233-364 and 411-415: the mail of a student, sent or refused by the
\* transporter; 'progress', and 'cooldown' with its pause after a full batch. On a
\* cancelled stream the first sendEvent after the mail ('email-failed' or 'progress')
\* throws, and catch (filaErr) counts the row as failed ----
FilaCorreo(enviado) ==
    /\ carga.pc = "correo"
    /\ LET intento == [carga EXCEPT !.emailAttempts = @ + 1]
           trasEnvio == IF enviado
                        THEN [intento EXCEPT !.emailsSent = @ + 1]
                        ELSE ErrorDeFila(EmailFallido(intento, "Error al enviar el correo"),
                                         "Error enviando correo")
           trasProgreso == sendEvent(trasEnvio,
                               [Evento("progress") EXCEPT !.processed = trasEnvio.emailAttempts,
                                                          !.total = trasEnvio.studentsToEmail])
           trasPausa == IF /\ trasProgreso.emailAttempts % EMAIL_BATCH_SIZE = 0
                           /\ trasProgreso.emailAttempts < trasProgreso.studentsToEmail
                        THEN sendEvent(trasProgreso,
                                 [Evento("cooldown") EXCEPT
                                     !.processed = trasProgreso.emailAttempts,
                                     !.delayMs = EMAIL_BATCH_DELAY_MS])
                        ELSE trasProgreso
       IN  IF Cancelado
           THEN carga' = FilaFallida(IF enviado
                                     THEN [intento EXCEPT !.emailsSent = @ + 1]
                                     ELSE FalloDeCorreo(intento, "Error al enviar el correo"),
                                     "Error procesando fila")
           ELSE carga' = FinDeFila(trasPausa, ~enviado)
    /\ UNCHANGED <<persona, importacion, solicitud>>
    /\ UNCHANGED ingresoVars
    /\ UNCHANGED cajaVars

\* The counters as the log row keeps them, lines 444-452.
Bitacora(c) ==
    [total_registros |-> Len(c.filas), exitosos |-> c.exitosos, fallidos |-> c.fallidos,
     errores |-> c.errores]

\* ---- lines 444-491: after the last row the log row is updated and 'done' sent. On a
\* cancelled stream 'done' throws, catch (streamErr) writes the same counters again and
\* its own 'error' throws out of start() ----
ImportarFin ==
    /\ carga.pc = "fila"
    /\ carga.index = Len(carga.filas)
    /\ carga.importLog \in DOMAIN importacion
    /\ importacion' = [importacion EXCEPT ![carga.importLog] = Bitacora(carga)]
    /\ carga' = [(IF Cancelado THEN carga
                  ELSE sendEvent(carga,
                     [Evento("done") EXCEPT !.total = Len(carga.filas),
                                            !.exitosos = carga.exitosos,
                                            !.fallidos = carga.fallidos,
                                            !.failedEmails = carga.failedEmails]))
                    EXCEPT !.pc = "terminada"]
    /\ UNCHANGED <<persona, solicitud>>
    /\ UNCHANGED ingresoVars
    /\ UNCHANGED cajaVars

\* ---- lines 471-491: the update of the log row throws; it is tried once more, and
\* 'error' is sent whether or not the second try succeeds ----
ImportarFinRechazado(reintento) ==
    /\ carga.pc = "fila"
    /\ carga.index = Len(carga.filas)
    /\ IF reintento /\ carga.importLog \in DOMAIN importacion
       THEN importacion' = [importacion EXCEPT ![carga.importLog] = Bitacora(carga)]
       ELSE UNCHANGED importacion
    /\ carga' = [(IF Cancelado THEN carga ELSE sendEvent(carga, Evento("error")))
                    EXCEPT !.pc = "terminada"]
    /\ UNCHANGED <<persona, solicitud>>
    /\ UNCHANGED ingresoVars
    /\ UNCHANGED cajaVars

\* Before the first import: no person, no token, no log row.
InitImportar ==
    /\ codigoQR = <<>>
    /\ ingreso = <<>>
    /\ lectura = <<>>
    /\ CajaVacia
    /\ OtrasVacias

NextImportar ==
    \/ \E filas \in Archivos, maxUsosFamiliares \in 0..1 : ImportarInicio(filas, maxUsosFamiliares)
    \/ FilaValidar
    \/ FilaPersona
    \/ FilaPersonaRechazado
    \/ \E ahora \in Ahoras, png \in BOOLEAN : FilaCodigo(ahora, png)
    \/ FilaCodigoRechazado
    \/ \E enviado \in BOOLEAN : FilaCorreo(enviado)
    \/ ImportarFin
    \/ \E reintento \in BOOLEAN : ImportarFinRechazado(reintento)

\* One sheet is imported, row after row.
SpecImportar == InitImportar /\ [][NextImportar]_vars

(***************************************************************************)
(* POST /generar-visitantes: the session and role checks of every action   *)
(***************************************************************************)
\* body.precio and body.limite after Number(): whole prices (valor keeps them as they
\* are), limits with and without a fraction.
PreciosPedidos == {NoFinito} \cup {Entero(n) : n \in {-1, DEFAULT_PRICE, DEFAULT_PRICE + 1}}
LimitesPedidos == {NoFinito} \cup {Medios(n) : n \in {-1, 0, 3}}

\* ---- lines 373-377: getServerSession gives no session ----
SinSesion(p) ==
    /\ Libre(p)
    /\ Responder(p, RespError(401, "No autorizado"))
    /\ UNCHANGED <<cajaTurno, ventaAdicional, configuracion, reportes>>
    /\ UNCHANGED ingresoVars
    /\ UNCHANGED otrasVars

\* ---- case "updatePrice", lines 390-391 and 466-497; aceptado: the store takes the
\* update ----
ActualizarPrecio(p, usuario, nuevoPrecio, aceptado) ==
    /\ Libre(p)
    /\ IF Rol(usuario) # "admin"
       THEN /\ configuracion' = ensureConfiguracion(configuracion)
            /\ Responder(p, RespError(403, "No autorizado"))
       ELSE IF ~isFinite(nuevoPrecio) \/ nuevoPrecio.medios < 0
       THEN /\ configuracion' = ensureConfiguracion(configuracion)
            /\ Responder(p, RespError(400, "Precio invalido"))
       ELSE IF ~aceptado
       THEN /\ configuracion' = ensureConfiguracion(configuracion)
            /\ Responder(p, RespError(500, "No se pudo actualizar el precio en la base de datos"))
       ELSE /\ configuracion' = [ensureConfiguracion(configuracion) EXCEPT
                                    ![PRECIO_KEY] = floor(nuevoPrecio)]
            /\ Responder(p, RespExito)
    /\ UNCHANGED <<cajaTurno, ventaAdicional, reportes>>
    /\ UNCHANGED ingresoVars
    /\ UNCHANGED otrasVars

\* ---- case "updateLimit", lines 390-391 and 499-532 ----
ActualizarLimite(p, usuario, nuevoLimiteParam, aceptado) ==
    /\ Libre(p)
    /\ IF Rol(usuario) # "admin"
       THEN /\ configuracion' = ensureConfiguracion(configuracion)
            /\ Responder(p, RespError(403, "No autorizado"))
       ELSE IF ~isFinite(nuevoLimiteParam) \/ nuevoLimiteParam.medios < 0
       THEN /\ configuracion' = ensureConfiguracion(configuracion)
            /\ Responder(p, RespError(400, "Ingresa un limite valido (0 o mayor)"))
       ELSE IF ~aceptado
       THEN /\ configuracion' = ensureConfiguracion(configuracion)
            /\ Responder(p, RespError(500, "No se pudo actualizar el limite en la base de datos"))
       ELSE /\ configuracion' = [ensureConfiguracion(configuracion) EXCEPT
                                    ![LIMIT_KEY] = floor(nuevoLimiteParam)]
            /\ Responder(p, RespExito)
    /\ UNCHANGED <<cajaTurno, ventaAdicional, reportes>>
    /\ UNCHANGED ingresoVars
    /\ UNCHANGED otrasVars

\* ---- case "openSessions", lines 390-391 and 837-856: the open sessions, read only ----
SesionesAbiertas(p, usuario) ==
    /\ Libre(p)
    /\ configuracion' = ensureConfiguracion(configuracion)
    /\ IF Rol(usuario) # "admin"
       THEN Responder(p, RespError(403, "No autorizado"))
       ELSE Responder(p, [RespExito EXCEPT
                             !.abiertas = {id \in DOMAIN cajaTurno : cajaTurno[id].abierto}])
    /\ UNCHANGED <<cajaTurno, ventaAdicional, reportes>>
    /\ UNCHANGED ingresoVars
    /\ UNCHANGED otrasVars

\* Session 1 was closed by the administrator with one Sale, session 2 is open with one
\* Sale of the operator; the configuration was never read, or has its defaults.
InitPermisos ==
    /\ cajaTurno = <<[abierto |-> FALSE, abiertoPor |-> "admin@iste",
                      cerradoPor |-> "admin@iste", cerradoAt |-> 1],
                     [abierto |-> TRUE, abiertoPor |-> "caja1@iste",
                      cerradoPor |-> NULL, cerradoAt |-> 0]>>
    /\ ventaAdicional = [i \in 1..2 |-> [codigoId |-> i, cajaId |-> i,
                                         precio |-> DEFAULT_PRICE, cantidad |-> 1]]
    /\ codigoQR = [i \in 1..2 |-> [codigo |-> CodigoVenta(i, i), tipo_qr |-> "vis",
                                   max_usos |-> 1, usos_actual |-> 0]]
    /\ ingreso = <<>>
    /\ lectura = <<>>
    /\ configuracion \in {<<>>, ensureConfiguracion(<<>>)}
    /\ peticion = [p \in Trabajadores |-> Reposo]
    /\ reportes = SinReportes
    /\ OtrasVacias

NextPermisos ==
    \E p \in Trabajadores :
        \/ SinSesion(p)
        \/ \E usuario \in Usuarios, precio \in PreciosPedidos, aceptado \in BOOLEAN :
              ActualizarPrecio(p, usuario, precio, aceptado)
        \/ \E usuario \in Usuarios, limite \in LimitesPedidos, aceptado \in BOOLEAN :
              ActualizarLimite(p, usuario, limite, aceptado)
        \/ \E usuario \in Usuarios : SesionesAbiertas(p, usuario)
        \/ \E usuario \in Usuarios, cajaId \in CajaIdsPedidos : BorrarLeer(p, usuario, cajaId)
        \/ BorrarVentas(p)
        \/ BorrarCodigos(p)
        \/ BorrarCaja(p)
        \/ \E usuario \in Usuarios, cajaId \in CajaIdsPedidos : ForzarLeer(p, usuario, cajaId)
        \/ ForzarReporte(p)
        \/ ForzarReporteFalla(p)
        \/ \E ahora \in Ahora : ForzarActualizar(p, ahora)
        \/ Liberar(p)

\* The administrative actions of the booth, from administrators, operators and callers
\* without a session.
SpecPermisos == InitPermisos /\ [][NextPermisos]_vars

(***************************************************************************)
(* POST /limpieza                                                          *)
(***************************************************************************)
\* DEFAULT_CONFIRMATION_TOKEN, "LIMPIAR TODO", as characters.
DEFAULT_CONFIRMATION_TOKEN == <<"L", "I", "M", "P", "I", "A", "R", " ", "T", "O", "D", "O">>
CLEANUP_CONFIG_KEY == "limpieza_last_run"

\* body.confirmation: the phrase, the phrase between blanks, part of it, nothing.
Confirmaciones ==
    {DEFAULT_CONFIRMATION_TOKEN,
     <<" ">> \o DEFAULT_CONFIRMATION_TOKEN \o <<" ">>,
     <<"L", "I", "M", "P", "I", "A", "R">>,
     <<>>}

\* A variant of the check that takes any phrase.
ConfirmadaSiempre(confirmation) == TRUE

\* Lines 556-564: confirmationInput === confirmationToken.
Confirmada(confirmation) == trim(confirmation) = DEFAULT_CONFIRMATION_TOKEN

\* ---- POST, lines 540-627. resultado: the transaction commits and the directories are
\* cleaned ("ok"), the transaction is rolled back ("rollback"), or it commits and
\* cleaning the directories throws ("directorios") ----
Limpiar(s, usuario, confirmation, resultado, ahora) ==
    /\ solicitud[s].pc = "inicio"
    /\ EnOrdenSolicitud(s)
    /\ IF usuario = NULL \/ Rol(usuario) # "admin"
       THEN /\ Contestar(s, Contesta(403, "No autorizado"))
            /\ UNCHANGED <<codigoQR, ingreso, cajaTurno, ventaAdicional, configuracion,
                           persona, importacion>>
       ELSE IF ~Confirmada(confirmation)
       THEN /\ Contestar(s, Contesta(400, "Debes escribir la frase para confirmar la limpieza completa."))
            /\ UNCHANGED <<codigoQR, ingreso, cajaTurno, ventaAdicional, configuracion,
                           persona, importacion>>
       ELSE IF resultado = "rollback"
       THEN /\ Contestar(s, Contesta(500, "No se pudo completar la limpieza"))
            /\ UNCHANGED <<codigoQR, ingreso, cajaTurno, ventaAdicional, configuracion,
                           persona, importacion>>
       ELSE /\ ventaAdicional' = <<>>
            /\ ingreso' = <<>>
            /\ codigoQR' = <<>>
            /\ persona' = <<>>
            /\ importacion' = <<>>
            /\ cajaTurno' = <<>>
            /\ configuracion' = [k \in DOMAIN configuracion \cup {CLEANUP_CONFIG_KEY} |->
                                    IF k = CLEANUP_CONFIG_KEY THEN ahora ELSE configuracion[k]]
            /\ IF resultado = "directorios"
               THEN Contestar(s, Contesta(500, "No se pudo completar la limpieza"))
               ELSE Contestar(s, [Contesta(200, "") EXCEPT !.removed =
                        [personas |-> Len(persona),
                         codigos |-> Cardinality(DOMAIN codigoQR),
                         ingresos |-> Len(ingreso),
                         importaciones |-> Len(importacion),
                         ventas |-> Len(ventaAdicional),
                         cajas |-> Cardinality(DOMAIN cajaTurno)]])
    /\ UNCHANGED <<lectura, peticion, reportes, carga>>

\* After the event and an import: the tables of the booth and the gate, one person, one
\* import log.
InitLimpieza ==
    /\ TablasTrasElEvento
    /\ lectura = <<>>
    /\ configuracion = ensureConfiguracion(<<>>)
    /\ peticion = [p \in Trabajadores |-> Reposo]
    /\ reportes = SinReportes
    /\ persona \in {<<>>, <<[cedula |-> <<"1", "7">>, correo |-> <<>>, tipo_persona |-> "familiar"]>>}
    /\ importacion \in {<<>>, <<[total_registros |-> 1, exitosos |-> 1, fallidos |-> 0,
                                  errores |-> <<>>]>>}
    /\ solicitud = [s \in Solicitudes |-> SolicitudInicial]
    /\ carga = CargaInicial

NextLimpieza ==
    \E s \in Solicitudes, usuario \in Llamantes, confirmation \in Confirmaciones,
       resultado \in {"ok", "rollback", "directorios"}, ahora \in Ahoras :
        Limpiar(s, usuario, confirmation, resultado, ahora)

\* The cleanup is asked for, by anyone, with any phrase.
SpecLimpieza == InitLimpieza /\ [][NextLimpieza]_vars

(***************************************************************************)
(* POST /generar-qr, and the three issuers side by side                    *)
(***************************************************************************)
\* body.max_usos after Number(), body.cedula after String().
UsosPedidos == {NoFinito, Entero(0), Entero(1), Medios(3)}
CedulasPedidas == {<<"1", "7">>, <<"9">>}

\* `VIS-ADD-${Date.now().toString().slice(-6)}` and `EST-ADD-${persona.id_persona}-...`:
\* ahora is the last six digits of the clock.
CodigoVisitante(ahora) == "VIS-ADD-" \o ToString(ahora)
CodigoEstudiante(id_persona, ahora) ==
    "EST-ADD-" \o ToString(id_persona) \o "-" \o ToString(ahora)

\* ---- POST, lines 6-151. despues: what follows prisma.codigoQR.create (rendering the
\* image, the mail of a student) succeeds; the catch of lines 147-149 answers 500 for every
\* exception, the unique index on codigo refusing the code among them ----
GenerarQR(s, esEstudiante, cedula, requestedMax, ahora, despues) ==
    /\ solicitud[s].pc = "inicio"
    /\ EnOrdenSolicitud(s)
    /\ LET estudiantes == {i \in DOMAIN persona : persona[i].cedula = cedula}
           id_persona == CHOOSE i \in estudiantes : TRUE
           codigo == IF esEstudiante THEN CodigoEstudiante(id_persona, ahora)
                     ELSE CodigoVisitante(ahora)
           totalPermitidos == Max({1, floor(requestedMax)})
       IN  IF ~isFinite(requestedMax) \/ requestedMax.medios <= 0
           THEN /\ Contestar(s, Contesta(400, "Debe especificar un numero valido de usos"))
                /\ UNCHANGED codigoQR
           ELSE IF esEstudiante /\ (estudiantes = {} \/ persona[id_persona].tipo_persona # "estudiante")
           THEN /\ Contestar(s, Contesta(404, "Estudiante no encontrado"))
                /\ UNCHANGED codigoQR
           ELSE IF \/ requestedMax.medios % 2 # 0
                   \/ \E i \in DOMAIN codigoQR : codigoQR[i].codigo = codigo
           THEN /\ Contestar(s, Contesta(500, "Error al generar el QR"))
                /\ UNCHANGED codigoQR
           ELSE /\ codigoQR' = codigoQR @@
                       (NuevoId(codigoQR) :>
                           [codigo |-> codigo,
                            tipo_qr |-> IF esEstudiante THEN "est" ELSE "vis",
                            max_usos |-> totalPermitidos, usos_actual |-> 0])
                /\ IF despues
                   THEN Contestar(s, [Contesta(200, "") EXCEPT !.codigo = codigo])
                   ELSE Contestar(s, Contesta(500, "Error al generar el QR"))
    /\ UNCHANGED <<ingreso, lectura, persona, importacion, carga>>
    /\ UNCHANGED cajaVars

\* The operator's session is open and one student was imported; no token is issued yet.
InitEmision ==
    /\ codigoQR = <<>>
    /\ ingreso = <<>>
    /\ lectura = <<>>
    /\ cajaTurno = <<[abierto |-> TRUE, abiertoPor |-> "caja1@iste", cerradoPor |-> NULL, cerradoAt |-> 0]>>
    /\ ventaAdicional = <<>>
    /\ configuracion = ensureConfiguracion(<<>>)
    /\ peticion = [p \in Trabajadores |-> Reposo]
    /\ reportes = SinReportes
    /\ persona = <<[cedula |-> <<"1", "7">>, correo |-> <<"a", "@", "b", ".", "c">>,
                    tipo_persona |-> "estudiante"]>>
    /\ importacion = <<>>
    /\ solicitud = [s \in Solicitudes |-> SolicitudInicial]
    /\ carga = CargaInicial

NextEmision ==
    \/ \E s \in Solicitudes, esEstudiante \in BOOLEAN, cedula \in CedulasPedidas,
          requestedMax \in UsosPedidos, ahora \in Ahoras, despues \in BOOLEAN :
          GenerarQR(s, esEstudiante, cedula, requestedMax, ahora, despues)
    \/ \E p \in Trabajadores, cantidad \in 1..MaxCantidad, ahora \in Ahoras :
          Generar(p, "caja1@iste", cantidad, ahora)
    \/ \E p \in Trabajadores : Liberar(p)

\* Tokens are issued at the office and at the booth, at any time.
SpecEmision == InitEmision /\ [][NextEmision]_vars

(***************************************************************************)
(* POST /generar-visitantes: a session sells while it is being closed      *)
(***************************************************************************)
\* data of prisma.ventaAdicional.create, lines 598-607.
FilaDeVenta(pet) ==
    [codigoId |-> CHOOSE id \in pet.codigoIds : TRUE, cajaId |-> pet.caja,
     precio |-> pet.precio, cantidad |-> pet.cantidad]

\* ---- case "generate", line 595: generarQRpng throws after the token was created;
\* nothing in the handler catches it, the request ends with status 500 ----
GenerarImagenFalla(p) ==
    /\ peticion[p].pc = "generar_venta"
    /\ Responder(p, RespError(500, "Internal Server Error"))
    /\ UNCHANGED <<codigoQR, ingreso, lectura, cajaTurno, ventaAdicional, configuracion, reportes>>
    /\ UNCHANGED otrasVars

\* ---- case "generate", lines 598-687: the Sale is created, then sendMail or
\* buildTicketPdf throws: status 500 ----
GenerarEntregaFalla(p) ==
    /\ peticion[p].pc = "generar_venta"
    /\ ventaAdicional' = Append(ventaAdicional, FilaDeVenta(peticion[p]))
    /\ Responder(p, RespError(500, "Internal Server Error"))
    /\ UNCHANGED <<codigoQR, ingreso, lectura, cajaTurno, configuracion, reportes>>
    /\ UNCHANGED otrasVars

NextTurno ==
    \E p \in Trabajadores :
        \/ \E usuario \in Usuarios, cantidad \in Cantidades : GenerarLeer(p, usuario, cantidad)
        \/ \E ahora \in Ahora : GenerarCodigo(p, ahora)
        \/ GenerarImagenFalla(p)
        \/ GenerarVenta(p)
        \/ GenerarEntregaFalla(p)
        \/ \E usuario \in Usuarios : CerrarLeer(p, usuario)
        \/ CerrarVentas(p)
        \/ CerrarReporte(p)
        \/ CerrarReporteFalla(p)
        \/ \E ahora \in Ahora : CerrarActualizar(p, ahora)
        \/ \E usuario \in Usuarios, cajaId \in CajaIdsPedidos : ForzarLeer(p, usuario, cajaId)
        \/ ForzarReporte(p)
        \/ ForzarReporteFalla(p)
        \/ \E ahora \in Ahora : ForzarActualizar(p, ahora)
        \/ Liberar(p)

\* The operator's session is open; Sales, 'close' and 'forceClose' interleave at their
\* awaits.
SpecTurno == InitLimite /\ [][NextTurno]_vars

(***************************************************************************)
(* /generar-visitantes: what an operator reads and changes                 *)
(***************************************************************************)
\* session.user?.email ?? "": the callers above, and an operator whose account carries
\* no email.
Operadores == Usuarios \cup {""}

\* The closed sessions in the caller's scope: the where clause of GET (lines 326-333) and
\* of "closures" (819-825).
CierresDe(userEmail, role) ==
    {id \in DOMAIN cajaTurno :
        /\ ~cajaTurno[id].abierto
        /\ (role = "admin" \/ cajaTurno[id].abiertoPor = userEmail)}

\* The sessions of the Sales GET lists, lines 311-322: every Sale for an administrator,
\* those of the sessions the caller opened otherwise.
HistorialDe(userEmail, role) ==
    {ventaAdicional[j].cajaId :
        j \in {k \in DOMAIN ventaAdicional :
                  \/ role = "admin"
                  \/ /\ ventaAdicional[k].cajaId \in DOMAIN cajaTurno
                     /\ cajaTurno[ventaAdicional[k].cajaId].abiertoPor = userEmail}}

\* ---- "open", "close", "generate" from a caller without an email, lines 390-391 and
\* 397-399, 425-427, 544-546 ----
SinCorreo(p) ==
    /\ Libre(p)
    /\ configuracion' = ensureConfiguracion(configuracion)
    /\ Responder(p, RespError(400, "No se pudo identificar al usuario actual"))
    /\ UNCHANGED <<cajaTurno, ventaAdicional, reportes>>
    /\ UNCHANGED ingresoVars
    /\ UNCHANGED otrasVars

\* ---- GET, lines 280-371: the open session, the recent Sales and the closures in the
\* caller's scope ----
Consultar(p, usuario) ==
    /\ Libre(p)
    /\ configuracion' = ensureConfiguracion(configuracion)
    /\ LET cajas == CajasActivas(usuario, Rol(usuario))
       IN  \E caja \in (IF cajas = {} THEN {0} ELSE cajas) :
              Responder(p, [RespCaja(caja, VentasDe(caja)) EXCEPT
                               !.historial = HistorialDe(usuario, Rol(usuario)),
                               !.cierres = CierresDe(usuario, Rol(usuario))])
    /\ UNCHANGED <<cajaTurno, ventaAdicional, reportes>>
    /\ UNCHANGED ingresoVars
    /\ UNCHANGED otrasVars

\* ---- case "closures", lines 390-391 and 814-835 ----
Cierres(p, usuario) ==
    /\ Libre(p)
    /\ configuracion' = ensureConfiguracion(configuracion)
    /\ Responder(p, [RespExito EXCEPT !.cierres = CierresDe(usuario, Rol(usuario))])
    /\ UNCHANGED <<cajaTurno, ventaAdicional, reportes>>
    /\ UNCHANGED ingresoVars
    /\ UNCHANGED otrasVars

\* ---- case "details", lines 390-391 and 709-769 ----
Detalles(p, usuario, cajaId) ==
    /\ Libre(p)
    /\ configuracion' = ensureConfiguracion(configuracion)
    /\ IF Rol(usuario) \notin {"admin", "finance", "financiero"}
       THEN Responder(p, RespError(403, "No autorizado"))
       ELSE IF cajaId \notin DOMAIN cajaTurno \/ cajaTurno[cajaId].abierto
       THEN Responder(p, RespError(404, "Cierre no encontrado"))
       ELSE IF Rol(usuario) # "admin" /\ cajaTurno[cajaId].abiertoPor # usuario
       THEN Responder(p, RespError(403, "No autorizado para ver este cierre"))
       ELSE Responder(p, RespCaja(cajaId, VentasDe(cajaId)))
    /\ UNCHANGED <<cajaTurno, ventaAdicional, reportes>>
    /\ UNCHANGED ingresoVars
    /\ UNCHANGED otrasVars

\* The administrator closed session 1 with one Sale; nobody has a session open.
InitAlcance ==
    /\ cajaTurno = <<[abierto |-> FALSE, abiertoPor |-> "admin@iste",
                      cerradoPor |-> "admin@iste", cerradoAt |-> 1]>>
    /\ ventaAdicional = <<[codigoId |-> 1, cajaId |-> 1, precio |-> DEFAULT_PRICE, cantidad |-> 1]>>
    /\ codigoQR = <<[codigo |-> CodigoVenta(1, 1), tipo_qr |-> "vis",
                     max_usos |-> 1, usos_actual |-> 0]>>
    /\ ingreso = <<>>
    /\ lectura = <<>>
    /\ configuracion = ensureConfiguracion(<<>>)
    /\ peticion = [p \in Trabajadores |-> Reposo]
    /\ reportes = SinReportes
    /\ OtrasVacias

NextAlcance ==
    \E p \in Trabajadores :
        \/ SinCorreo(p)
        \/ \E usuario \in Operadores : Consultar(p, usuario)
        \/ \E usuario \in Operadores : Cierres(p, usuario)
        \/ \E usuario \in Operadores, cajaId \in CajaIdsPedidos : Detalles(p, usuario, cajaId)
        \/ \E usuario \in Usuarios : AbrirLeer(p, usuario)
        \/ AbrirCrear(p)
        \/ \E usuario \in Usuarios : CerrarLeer(p, usuario)
        \/ CerrarVentas(p)
        \/ CerrarReporte(p)
        \/ CerrarReporteFalla(p)
        \/ \E ahora \in Ahora : CerrarActualizar(p, ahora)
        \/ \E usuario \in Usuarios, cantidad \in 1..MaxCantidad, ahora \in Ahora :
               Generar(p, usuario, cantidad, ahora)
        \/ Liberar(p)

\* Operators and the administrator at the booth: they open, sell, close and look at
\* their sessions and closures.
SpecAlcance == InitAlcance /\ [][NextAlcance]_vars

(***************************************************************************)
(* POST /importar: a sheet longer than a batch of emails                   *)
(***************************************************************************)
\* A sheet of n students, each with a well-formed email and no cedula.
HojaDeEstudiantes(n) ==
    [i \in 1..n |-> [cedula |-> <<>>, correo |-> <<"a", "@", "b", ".", "c">>, tipo |-> ""]]

\* Sheets that fill one batch exactly, and one row more.
HojasDeLote == {HojaDeEstudiantes(n) : n \in {EMAIL_BATCH_SIZE, EMAIL_BATCH_SIZE + 1}}

\* The rows at the end of the first batch and after it.
UltimasFilas == carga.index >= EMAIL_BATCH_SIZE - 1

\* The import of a long sheet: the store, the rendering and the transporter work for the
\* first rows and may fail for the last ones; the clock suffix of every code is the same
\* (each row has its own persona, so the codes differ).
NextLote ==
    \/ \E filas \in HojasDeLote : ImportarInicio(filas, 0)
    \/ FilaValidar
    \/ FilaPersona
    \/ UltimasFilas /\ FilaPersonaRechazado
    \/ \E png \in BOOLEAN : (png \/ UltimasFilas) /\ FilaCodigo(1, png)
    \/ UltimasFilas /\ FilaCodigoRechazado
    \/ \E enviado \in BOOLEAN : (enviado \/ UltimasFilas) /\ FilaCorreo(enviado)
    \/ ImportarFin
    \/ \E reintento \in BOOLEAN : ImportarFinRechazado(reintento)

SpecLote == InitImportar /\ [][NextLote]_vars

(***************************************************************************)
(* POST /importar: the client leaves while the sheet is being imported     *)
(***************************************************************************)
\* The connection closes while start() runs. The handler registers no cancel() and reads
\* no abort signal: the loop goes on. Either the runtime cancels the stream, and every
\* later controller.enqueue throws, or the lines keep piling up in its queue unread.
Desconectar(cancela) ==
    /\ carga.pc \notin {"inicio", "terminada"}
    /\ carga.cliente = "conectado"
    /\ carga' = [carga EXCEPT !.cliente = IF cancela THEN "cancelado" ELSE "ausente",
                              !.alCorte = [exitosos |-> carga.exitosos,
                                           fallidos |-> carga.fallidos]]
    /\ UNCHANGED <<persona, importacion, solicitud>>
    /\ UNCHANGED ingresoVars
    /\ UNCHANGED cajaVars

NextCorte ==
    \/ NextImportar
    \/ \E cancela \in BOOLEAN : Desconectar(cancela)

\* One sheet is imported, and the client may leave at any moment of it.
SpecCorte == InitImportar /\ [][NextCorte]_vars

(***************************************************************************)
(* /generar-visitantes: the lazy creation of the configuration, one await  *)
(* at a time                                                               *)
(***************************************************************************)
\* prisma.configuracion.create inside ensurePrecioUnitario and ensureLimiteBoletos, lines
\* 35 and 52. The primary key on clave refuses a key that exists. The promise is
\* returned without await, so the catch of the helper does not see the rejection: it
\* leaves the helper, nothing in GET or POST catches it, and the request ends with
\* status 500.
CrearClave(p, clave, valor, siguiente) ==
    IF clave \in DOMAIN configuracion
    THEN /\ Responder(p, RespError(500, "Internal Server Error"))
         /\ UNCHANGED configuracion
    ELSE /\ configuracion' = configuracion @@ (clave :> valor)
         /\ peticion' = [peticion EXCEPT ![p].pc = siguiente]

\* ---- GET, lines 281-290, or POST with an action, 373-390: the session, then the
\* findUnique of ensurePrecioUnitario, lines 30-33 ----
EnsurePrecioBuscar(p, usuario) ==
    /\ Libre(p)
    /\ peticion' = [peticion EXCEPT ![p] =
           [Recibida("GET", usuario) EXCEPT
               !.pc = IF PRECIO_KEY \in DOMAIN configuracion
                      THEN "limite_buscar" ELSE "precio_crear"]]
    /\ UNCHANGED <<cajaTurno, ventaAdicional, configuracion, reportes>>
    /\ UNCHANGED ingresoVars
    /\ UNCHANGED otrasVars

\* ---- ensurePrecioUnitario, line 35 ----
EnsurePrecioCrear(p) ==
    /\ peticion[p].pc = "precio_crear"
    /\ CrearClave(p, PRECIO_KEY, DEFAULT_PRICE, "limite_buscar")
    /\ UNCHANGED <<cajaTurno, ventaAdicional, reportes>>
    /\ UNCHANGED ingresoVars
    /\ UNCHANGED otrasVars

\* ---- ensureLimiteBoletos, lines 48-51 ----
EnsureLimiteBuscar(p) ==
    /\ peticion[p].pc = "limite_buscar"
    /\ peticion' = [peticion EXCEPT
           ![p].pc = IF LIMIT_KEY \in DOMAIN configuracion THEN "atender" ELSE "limite_crear"]
    /\ UNCHANGED <<cajaTurno, ventaAdicional, configuracion, reportes>>
    /\ UNCHANGED ingresoVars
    /\ UNCHANGED otrasVars

\* ---- ensureLimiteBoletos, line 52 ----
EnsureLimiteCrear(p) ==
    /\ peticion[p].pc = "limite_crear"
    /\ CrearClave(p, LIMIT_KEY, DEFAULT_LIMIT, "atender")
    /\ UNCHANGED <<cajaTurno, ventaAdicional, reportes>>
    /\ UNCHANGED ingresoVars
    /\ UNCHANGED otrasVars

\* ---- GET, lines 292-371: the reads and the answer ----
Atender(p) ==
    /\ peticion[p].pc = "atender"
    /\ LET usuario == peticion[p].usuario
           cajas == CajasActivas(usuario, Rol(usuario))
       IN  \E caja \in (IF cajas = {} THEN {0} ELSE cajas) :
              Responder(p, [RespCaja(caja, VentasDe(caja)) EXCEPT
                               !.historial = HistorialDe(usuario, Rol(usuario)),
                               !.cierres = CierresDe(usuario, Rol(usuario))])
    /\ UNCHANGED <<cajaTurno, ventaAdicional, configuracion, reportes>>
    /\ UNCHANGED ingresoVars
    /\ UNCHANGED otrasVars

\* ---- POST, lines 381-386: the body names no action ----
SinAccion(p) ==
    /\ Libre(p)
    /\ Responder(p, RespError(400, "Accion no especificada"))
    /\ UNCHANGED <<cajaTurno, ventaAdicional, configuracion, reportes>>
    /\ UNCHANGED ingresoVars
    /\ UNCHANGED otrasVars

\* The first requests after the migration, or after an administrator has set a price:
\* the configuration is empty, or holds a price that is not the default.
InitConfiguracion ==
    /\ configuracion \in {<<>>, (PRECIO_KEY :> DEFAULT_PRICE + 1)}
    /\ cajaTurno = <<>>
    /\ ventaAdicional = <<>>
    /\ codigoQR = <<>>
    /\ ingreso = <<>>
    /\ lectura = <<>>
    /\ peticion = [p \in Trabajadores |-> Reposo]
    /\ reportes = SinReportes
    /\ OtrasVacias

NextConfiguracion ==
    \E p \in Trabajadores :
        \/ SinSesion(p)
        \/ SinAccion(p)
        \/ \E usuario \in Usuarios : EnsurePrecioBuscar(p, usuario)
        \/ EnsurePrecioCrear(p)
        \/ EnsureLimiteBuscar(p)
        \/ EnsureLimiteCrear(p)
        \/ Atender(p)
        \/ \E precio \in PreciosPedidos, aceptado \in BOOLEAN :
              ActualizarPrecio(p, "admin@iste", precio, aceptado)
        \/ Liberar(p)

\* Requests that meet a configuration without its keys, two at a time.
SpecConfiguracion == InitConfiguracion /\ [][NextConfiguracion]_vars

(***************************************************************************)
(* Properties of POST /ingreso                                             *)
(***************************************************************************)
Emitido(codigo) == \E id \in DOMAIN codigoQR : codigoQR[id].codigo = codigo
IdDe(codigo) == CHOOSE id \in DOMAIN codigoQR : codigoQR[id].codigo = codigo

\* Ingreso rows that reference token id.
FilasDe(id) == Cardinality({i \in DOMAIN ingreso : ingreso[i].codigoqrId = id})
\* Requests on token id that answered success.
ExitosDe(id) ==
    Cardinality({r \in Lecturas : lectura[r].resp.status = 200 /\ lectura[r].qr.id_codigo = id})

\* C1: for every token and every interleaving of concurrent POST /ingreso requests,
\* usos_actual never exceeds max_usos (so of N requests racing on a token with
\* max_usos = 1 exactly one succeeds).
C1_UsosNuncaExcedenMax ==
    \A id \in DOMAIN codigoQR : codigoQR[id].usos_actual <= codigoQR[id].max_usos

\* C2: a call that answers success appended exactly one Ingreso row for the token and
\* raised its usos_actual by exactly 1, and a call that answers 404, 400 or 500 appended
\* no row and changed no counter: once every call has answered, each token (issued with
\* usos_actual = 0) has as many Ingreso rows, and as many uses, as successful answers.
C2_EfectosSegunRespuesta ==
    SinLecturaEnCurso =>
        \A id \in DOMAIN codigoQR :
            /\ FilasDe(id) = ExitosDe(id)
            /\ codigoQR[id].usos_actual = ExitosDe(id)

\* C3: a POST /ingreso whose code matches no CodigoQR row answers 404 at its lookup,
\* creates no Ingreso row and changes no token's usos_actual.
C3_DesconocidoDa404 ==
    [][\A r \in Lecturas :
          (lectura[r].pc = "inicio" /\ lectura'[r].pc # "inicio" /\ ~Emitido(lectura'[r].codigo))
          => /\ lectura'[r].pc = "fin"
             /\ lectura'[r].resp.status = 404
             /\ codigoQR' = codigoQR
             /\ ingreso' = ingreso]_vars

C3_Testigo ==
    \E r \in Lecturas :
        /\ lectura[r].pc = "fin"
        /\ lectura[r].codigo = CodigoDesconocido
        /\ lectura[r].resp.status = 404
        /\ Len(ingreso) > 0

\* C4: a POST /ingreso on a token whose usos_actual equals or exceeds max_usos answers
\* 400 (exhausted), leaves usos_actual unchanged and appends no Ingreso row.
C4_AgotadoDa400 ==
    [][\A r \in Lecturas :
          (/\ lectura[r].pc = "inicio" /\ lectura'[r].pc # "inicio"
           /\ Emitido(lectura'[r].codigo)
           /\ codigoQR[IdDe(lectura'[r].codigo)].usos_actual
                 >= codigoQR[IdDe(lectura'[r].codigo)].max_usos)
          => /\ lectura'[r].pc = "fin"
             /\ lectura'[r].resp.status = 400
             /\ codigoQR' = codigoQR
             /\ ingreso' = ingreso]_vars

C4_Testigo ==
    \E r \in Lecturas :
        /\ lectura[r].pc = "fin"
        /\ lectura[r].resp.status = 400
        /\ lectura[r].qr.usos_actual = lectura[r].qr.max_usos
        /\ codigoQR[lectura[r].qr.id_codigo].usos_actual = lectura[r].qr.usos_actual

\* The calls on the same code as call r, up to and including r (calls are numbered in
\* the order the scanner sends them).
LlamadasHasta(r) == {q \in 1..r : lectura[q].codigo = lectura[r].codigo}

\* C5: for a freshly issued token with max_usos = k, of k+1 sequential POST /ingreso
\* calls (none of them cut short by a rejected write) the i-th, 1 <= i <= k, succeeds and
\* reports k - i remaining uses out of k, and the (k+1)-th answers 400 (exhausted).
C5_SecuenciaDeUsos ==
    \A r \in Lecturas :
        (/\ lectura[r].pc = "fin"
         /\ Emitido(lectura[r].codigo)
         /\ \A q \in LlamadasHasta(r) : lectura[q].resp.status # 500)
        => LET k == codigoQR[IdDe(lectura[r].codigo)].max_usos
               i == Cardinality(LlamadasHasta(r))
           IN  IF i <= k
               THEN lectura[r].resp = [status |-> 200, disponibles |-> k - i, de |-> k]
               ELSE lectura[r].resp.status = 400

C5_Testigo ==
    \E id \in DOMAIN codigoQR :
        /\ codigoQR[id].max_usos = 2
        /\ \A r \in 1..3 : lectura[r].pc = "fin" /\ lectura[r].codigo = codigoQR[id].codigo
        /\ lectura[1].resp = [status |-> 200, disponibles |-> 1, de |-> 2]
        /\ lectura[2].resp = [status |-> 200, disponibles |-> 0, de |-> 2]
        /\ lectura[3].resp.status = 400

(***************************************************************************)
(* Properties of the cash sessions                                         *)
(***************************************************************************)
\* The open sessions in the scope of a caller: every open session for the administrator,
\* for anybody else the open sessions whose abiertoPor is the caller.
EnAlcance(usuario) ==
    {id \in DOMAIN cajaTurno :
        /\ cajaTurno[id].abierto = TRUE
        /\ (usuario = "admin@iste" \/ cajaTurno[id].abiertoPor = usuario)}

\* C6: an 'open' issued while an open CajaTurno exists in the caller's scope (the caller's
\* own for a non-admin, any for an admin) ends there with the already-open error (400),
\* creates no CajaTurno and leaves every session's fields and Sales unchanged.
C6_AbrirConCajaAbiertaDa400 ==
    [][\A p \in Trabajadores, usuario \in Usuarios :
          (AbrirLeer(p, usuario) /\ EnAlcance(usuario) # {})
          => /\ peticion'[p].pc = "respondida"
             /\ peticion'[p].resp.status = 400
             /\ peticion'[p].resp.error \in {"Ya existe una caja abierta",
                                             "Ya tienes una caja abierta actualmente."}
             /\ cajaTurno' = cajaTurno
             /\ ventaAdicional' = ventaAdicional]_vars

\* The administrator was refused because of a session another operator holds open.
C6_Testigo ==
    \E p \in Trabajadores, id \in DOMAIN cajaTurno :
        /\ peticion[p].pc = "respondida"
        /\ peticion[p].resp.status = 400
        /\ peticion[p].resp.error = "Ya existe una caja abierta"
        /\ cajaTurno[id].abierto
        /\ cajaTurno[id].abiertoPor = "caja1@iste"
        /\ Cardinality(DOMAIN cajaTurno) = 1

\* C7: in every reachable state, after any interleaving of open, close and forceClose
\* requests, each operator email has at most one CajaTurno with abierto = true.
C7_UnaCajaAbiertaPorOperador ==
    \A usuario \in Usuarios :
        Cardinality({id \in DOMAIN cajaTurno :
                        cajaTurno[id].abierto /\ cajaTurno[id].abiertoPor = usuario}) <= 1

\* The rows of venta_adicional (by position) that belong to session id.
FilasDeCaja(id) == {i \in DOMAIN ventaAdicional : ventaAdicional[i].cajaId = id}

RECURSIVE SumaCantidad(_)
SumaCantidad(filas) ==
    IF filas = {} THEN 0
    ELSE LET i == CHOOSE j \in filas : TRUE
         IN  ventaAdicional[i].cantidad + SumaCantidad(filas \ {i})

RECURSIVE SumaImporte(_)
SumaImporte(filas) ==
    IF filas = {} THEN 0
    ELSE LET i == CHOOSE j \in filas : TRUE
         IN  ventaAdicional[i].precio * ventaAdicional[i].cantidad + SumaImporte(filas \ {i})

\* C8: the totals a 'close' computes are the sum of cantidad and the sum of
\* precio * cantidad over exactly the VentaAdicional rows of the session it closes, rows of
\* other sessions excluded: the totals it puts in the report are those sums over the rows
\* its query read, they reach the report as computed, and the totalTickets and
\* totalRecaudado it answers are those sums over the rows the closed session has.
C8_TotalesDeLaCaja ==
    [][\A p \in Trabajadores :
          /\ CerrarVentas(p)
             => /\ peticion'[p].totalBoletos = SumaCantidad(FilasDeCaja(peticion[p].caja))
                /\ peticion'[p].totalRecaudado = SumaImporte(FilasDeCaja(peticion[p].caja))
          /\ CerrarReporte(p)
             => /\ peticion'[p].caja = peticion[p].caja
                /\ peticion'[p].totalBoletos = peticion[p].totalBoletos
                /\ peticion'[p].totalRecaudado = peticion[p].totalRecaudado
          /\ (\E ahora \in Ahoras : CerrarActualizar(p, ahora))
             => /\ peticion'[p].resp.status = 200
                /\ peticion'[p].resp.caja = peticion[p].caja
                /\ peticion'[p].resp.totalTickets = SumaCantidad(FilasDeCaja(peticion[p].caja))
                /\ peticion'[p].resp.totalRecaudado = SumaImporte(FilasDeCaja(peticion[p].caja))]_vars

\* An operator's 'close' answered 2 tickets and 10 collected for its session, which has
\* one Sale of 2 tickets at 5, while the other Sale belongs to another session.
C8_Testigo ==
    \E p \in Trabajadores, id \in DOMAIN cajaTurno :
        /\ peticion[p].pc = "respondida"
        /\ peticion[p].resp.status = 200
        /\ peticion[p].resp.caja = id
        /\ ~cajaTurno[id].abierto
        /\ cajaTurno[id].cerradoPor = "caja1@iste"
        /\ id \in DOMAIN reportes
        /\ Len(ventaAdicional) = 2
        /\ Cardinality(FilasDeCaja(id)) = 1
        /\ \E i \in FilasDeCaja(id) : ventaAdicional[i].cantidad = 2 /\ ventaAdicional[i].precio = 5
        /\ peticion[p].resp.totalTickets = 2
        /\ peticion[p].resp.totalRecaudado = 10

\* C9: when building or sending the closing report fails during 'close' or 'forceClose'
\* on an open session, the session is still marked closed (abierto = false, with cerradoAt
\* and cerradoPor set) when the request ends: a report failure never leaves it open.
C9_ReporteFallidoCierra ==
    [][\A p \in Trabajadores :
          (CerrarReporteFalla(p) \/ ForzarReporteFalla(p))
          => /\ cajaTurno'[peticion[p].caja].abierto = FALSE
             /\ cajaTurno'[peticion[p].caja].cerradoPor # NULL
             /\ cajaTurno'[peticion[p].caja].cerradoAt # 0]_vars

\* C10: a 'forceClose' by an admin on a session id that is open closes exactly that
\* session, whoever opened it, with the admin as cerradoPor, and leaves every other
\* session unchanged; on an unknown or closed id it answers 404 and changes nothing;
\* for a non-admin caller it answers 403 and changes nothing.
C10_ForzarCierre ==
    [][\A p \in Trabajadores :
          /\ (peticion[p].accion = "forceClose" /\ peticion'[p].pc = "respondida")
             => /\ cajaTurno'[peticion[p].caja].abierto = FALSE
                /\ cajaTurno'[peticion[p].caja].cerradoPor = peticion[p].usuario
                /\ \A id \in DOMAIN cajaTurno \ {peticion[p].caja} : cajaTurno'[id] = cajaTurno[id]
          /\ \A usuario \in Usuarios, cajaId \in CajaIdsPedidos :
                ForzarLeer(p, usuario, cajaId)
                => /\ cajaTurno' = cajaTurno /\ ventaAdicional' = ventaAdicional
                   /\ usuario # "admin@iste" => peticion'[p].resp.status = 403
                   /\ (usuario = "admin@iste" /\ EnAlcance(usuario) \cap {cajaId} = {})
                      => peticion'[p].resp.status = 404]_vars

(***************************************************************************)
(* Properties of PATCH /gestion-qr                                         *)
(***************************************************************************)
\* The whole part of a finite, non-negative number kept in halves.
PisoDe(x) == CHOOSE n \in 0..x.medios : 2 * n <= x.medios /\ x.medios < 2 * n + 2

\* C11: a PATCH /gestion-qr by an administrator on an existing token with a cap that is
\* not finite, not positive or lower than the token's usos_actual answers 400 and leaves
\* max_usos (and every row) unchanged; with a cap >= usos_actual the request goes on to
\* its update, which sets max_usos to floor(cap), leaves usos_actual unchanged and
\* touches no other token.
C11_CambioDeCupo ==
    [][\A s \in Solicitudes :
          /\ \A id \in DOMAIN codigoQR, cap \in MaxUsosPedidos :
                PatchBuscar(s, "admin@iste", Entero(id), cap)
                => IF \/ ~cap.finito
                      \/ cap.medios <= 0
                      \/ cap.medios < 2 * codigoQR[id].usos_actual
                   THEN /\ solicitud'[s].pc = "fin"
                        /\ solicitud'[s].resp.status = 400
                        /\ codigoQR' = codigoQR
                   ELSE /\ solicitud'[s].pc = "actualizar"
                        /\ solicitud'[s].codigoId = id
                        /\ solicitud'[s].maxUsosParam = cap
                        /\ codigoQR' = codigoQR
          /\ PatchActualizar(s)
             => LET id == solicitud[s].codigoId IN
                /\ codigoQR'[id].max_usos = PisoDe(solicitud[s].maxUsosParam)
                /\ codigoQR'[id].usos_actual = codigoQR[id].usos_actual
                /\ \A otro \in DOMAIN codigoQR \ {id} : codigoQR'[otro] = codigoQR[otro]
                /\ solicitud'[s].resp.status = 200
                /\ solicitud'[s].resp.maxUsos = PisoDe(solicitud[s].maxUsosParam)]_vars

\* One cap change was refused for being below the uses made, and one set the cap of the
\* first token, issued with 2 uses and scanned once, to exactly the one use made.
C11_Testigo ==
    \E s1, s2 \in Solicitudes :
        /\ solicitud[s1].pc = "fin"
        /\ solicitud[s1].resp.status = 400
        /\ solicitud[s1].resp.error
              = "El nuevo limite no puede ser inferior a los usos ya registrados"
        /\ solicitud[s2].pc = "fin"
        /\ solicitud[s2].resp.status = 200
        /\ solicitud[s2].resp.maxUsos = 1
        /\ solicitud[s2].resp.usosActual = 1
        /\ codigoQR[1].max_usos = 1
        /\ codigoQR[1].usos_actual = 1

(***************************************************************************)
(* Properties of "deleteClosure"                                           *)
(***************************************************************************)
VentasAjenas(ventas, cajaId) == SelectSeq(ventas, LAMBDA v : v.cajaId # cajaId)

\* What every step of a deleteClosure leaves alone: the other sessions, their Sales, and
\* the tokens no Sale of the deleted session references.
RestoIntacto(p) ==
    /\ \A id \in DOMAIN cajaTurno \ {peticion[p].caja} :
          id \in DOMAIN cajaTurno' /\ cajaTurno'[id] = cajaTurno[id]
    /\ VentasAjenas(ventaAdicional', peticion[p].caja) = VentasAjenas(ventaAdicional, peticion[p].caja)
    /\ \A id \in DOMAIN codigoQR \ peticion[p].codigoIds :
          id \in DOMAIN codigoQR' /\ codigoQR'[id] = codigoQR[id]

\* The session of the request, its Sales and the tokens they referenced are gone.
CierreBorrado(p) ==
    /\ peticion[p].caja \notin DOMAIN cajaTurno'
    /\ \A i \in DOMAIN ventaAdicional' : ventaAdicional'[i].cajaId # peticion[p].caja
    /\ peticion[p].codigoIds \cap DOMAIN codigoQR' = {}

\* C12: a deleteClosure on a closed session removes that CajaTurno, exactly its
\* VentaAdicional rows and exactly the CodigoQR rows those Sales reference, and leaves
\* the sessions, Sales and tokens of every other session untouched; on an open session
\* it fails and deletes nothing.
C12_BorrarCierre ==
    [][\A p \in Trabajadores :
          /\ (BorrarVentas(p) \/ BorrarCodigos(p) \/ BorrarCaja(p)) => RestoIntacto(p)
          /\ (peticion[p].accion = "deleteClosure" /\ peticion'[p].pc = "respondida")
                => CierreBorrado(p)
          /\ \A cajaId \in DOMAIN cajaTurno :
                /\ (BorrarLeer(p, "admin@iste", cajaId) /\ cajaTurno[cajaId].abierto)
                    => /\ peticion'[p].pc = "respondida"
                       /\ peticion'[p].resp.status >= 400
                       /\ UNCHANGED <<cajaTurno, ventaAdicional, codigoQR>>
                /\ (BorrarLeer(p, "admin@iste", cajaId) /\ ~cajaTurno[cajaId].abierto)
                    => /\ peticion'[p].accion = "deleteClosure"
                       /\ peticion'[p].caja = cajaId
                       /\ peticion'[p].codigoIds =
                              {ventaAdicional[i].codigoId :
                                  i \in {j \in DOMAIN ventaAdicional :
                                            ventaAdicional[j].cajaId = cajaId}}
      ]_vars

(***************************************************************************)
(* Properties of "generate" under a configured limit                       *)
(***************************************************************************)
\* The cantidad of the rows of ventas at the positions filas, added up.
RECURSIVE SumaDe(_, _)
SumaDe(ventas, filas) ==
    IF filas = {} THEN 0
    ELSE LET i == CHOOSE j \in filas : TRUE
         IN  ventas[i].cantidad + SumaDe(ventas, filas \ {i})

TotalVendido(ventas) == SumaDe(ventas, DOMAIN ventas)

\* C13: with a limite_boletos L > 0 that nobody changes, after any sequence or
\* interleaving of generate requests the cantidad summed over every VentaAdicional row
\* never exceeds L, a generate that would push the total above L answering 400 and
\* creating no token and no Sale; with L = 0 no limit is applied.
C13_LimiteGlobal ==
    [][/\ configuracion[LIMIT_KEY] > 0
            => TotalVendido(ventaAdicional') <= configuracion[LIMIT_KEY]
       /\ \A p \in Trabajadores, cantidad \in 1..MaxCantidad :
             GenerarLeer(p, "caja1@iste", cantidad)
                => IF /\ configuracion[LIMIT_KEY] > 0
                      /\ TotalVendido(ventaAdicional) + cantidad > configuracion[LIMIT_KEY]
                   THEN /\ peticion'[p].pc = "respondida"
                        /\ peticion'[p].resp.status = 400
                        /\ UNCHANGED <<codigoQR, ventaAdicional>>
                   ELSE peticion'[p].pc = "generar_codigo"
      ]_vars

(***************************************************************************)
(* Properties of GET /dashboard                                            *)
(***************************************************************************)
Redenciones(id) == Cardinality({i \in DOMAIN ingreso : ingreso[i].codigoqrId = id})
ConVenta(id) == \E j \in DOMAIN ventaAdicional : ventaAdicional[j].codigoId = id
Leidos == {id \in DOMAIN codigoQR : Redenciones(id) > 0}

RECURSIVE SumaRedenciones(_)
SumaRedenciones(ids) ==
    IF ids = {} THEN 0
    ELSE LET id == CHOOSE x \in ids : TRUE
         IN  Redenciones(id) + SumaRedenciones(ids \ {id})

\* C14: in the dashboard summary a token with at least one Sale adds all its redemptions
\* to adicionales whatever its tipo_qr; otherwise a token of type est adds 1 to
\* estudiantes and its remaining redemptions to familiares, and every other token adds
\* all its redemptions to familiares.
C14_CubetasDelDashboard ==
    [][\A s \in Solicitudes :
          Dashboard(s) =>
             LET resumen == solicitud'[s].resp.resumen
                 vendidos == {id \in Leidos : ConVenta(id)}
                 estudiantes == {id \in Leidos : ~ConVenta(id) /\ codigoQR[id].tipo_qr = "est"}
                 otros == {id \in Leidos : ~ConVenta(id) /\ codigoQR[id].tipo_qr # "est"}
             IN  /\ resumen.adicionales = SumaRedenciones(vendidos)
                 /\ resumen.estudiantes = Cardinality(estudiantes)
                 /\ resumen.familiares = (SumaRedenciones(estudiantes) - Cardinality(estudiantes))
                                         + SumaRedenciones(otros)
      ]_vars

\* A summary was answered with a student token read twice and a sold token of type est
\* read once.
C14_Testigo ==
    \E s \in Solicitudes :
        /\ solicitud[s].pc = "fin"
        /\ solicitud[s].resp.resumen.estudiantes = 1
        /\ solicitud[s].resp.resumen.familiares = 1
        /\ solicitud[s].resp.resumen.adicionales = 1
        /\ \E id \in DOMAIN codigoQR : ConVenta(id) /\ codigoQR[id].tipo_qr = "est"

(***************************************************************************)
(* Properties of POST /importar                                            *)
(***************************************************************************)
UltimoEvento == carga.eventos[Len(carga.eventos)]
Terminada(type) == carga.pc = "terminada" /\ UltimoEvento.type = type

\* The row in hand has a non-empty, malformed email.
CorreoMalformado == correoStr # <<>> /\ ~EMAIL_REGEX(correoStr)

\* The row in hand fails in this step: its email is malformed, the store rejects a
\* statement, the code exists, the image cannot be rendered, or the mail is refused.
FallaDeFila ==
    \/ FilaValidar /\ CorreoMalformado
    \/ FilaPersonaRechazado
    \/ FilaCodigoRechazado
    \/ \E ahora \in Ahoras :
          \/ FilaCodigo(ahora, FALSE) /\ tipo_persona = "estudiante"
          \/ FilaCodigo(ahora, TRUE)
                /\ \E i \in DOMAIN codigoQR :
                      codigoQR[i].codigo = CodigoImportado(tipo_persona, carga.personaId, ahora)
    \/ FilaCorreo(FALSE)

\* C15: a failure while processing a row (invalid email, database error, mail error)
\* never stops the import: the rows after it are still processed, the failure is recorded
\* in the error list, and in the final 'done' summary exitosos + fallidos is the number
\* of rows, each row being counted exactly once.
C15_ImportarContinua ==
    [][/\ FallaDeFila
            => /\ carga'.pc = "fila"
               /\ carga'.index = carga.index + 1
               /\ carga'.fallidos = carga.fallidos + 1
               /\ carga'.exitosos = carga.exitosos
               /\ carga'.errores = Append(carga.errores, carga'.errores[Len(carga'.errores)])
               /\ carga'.errores[Len(carga'.errores)].fila = carga.index + 2
       /\ carga'.pc = "fila" => carga'.exitosos + carga'.fallidos = carga'.index
       /\ (carga'.pc = "fila" /\ carga'.index < Len(carga'.filas)) => (ENABLED FilaValidar)'
       /\ carga'.pc = "terminada" => carga'.index = Len(carga'.filas)
       /\ (carga'.pc = "terminada" /\ carga'.eventos[Len(carga'.eventos)].type = "done")
            => LET done == carga'.eventos[Len(carga'.eventos)]
               IN  /\ done.total = Len(carga'.filas)
                   /\ done.exitosos + done.fallidos = done.total
      ]_vars

\* A sheet of two rows ended with 'done': its first row failed at the store or at the
\* mail, its second row was imported.
C15_Testigo ==
    /\ Terminada("done")
    /\ Len(carga.filas) = 2
    /\ UltimoEvento.exitosos = 1
    /\ UltimoEvento.fallidos = 1
    /\ Len(carga.errores) = 1
    /\ carga.errores[1].fila = 2
    /\ carga.errores[1].motivo # "Correo invalido"

\* An email cell with no dot after the @, and a well-formed one.
SinPunto == <<"a", "@", "b">>
ConPunto == <<"a", "@", "b", ".", "c">>

\* The sheet has two student rows, one with each of the two cells above, and no row met
\* a failure of the store, of the rendering or of the mail.
DosEstudiantes(c) ==
    /\ Len(c.filas) = 2
    /\ \A i \in 1..2 : resolveTipoPersona(c.filas[i].tipo) = "estudiante"
    /\ {c.filas[1].correo, c.filas[2].correo} = {SinPunto, ConPunto}
    /\ \A k \in DOMAIN c.errores : c.errores[k].motivo = "Correo invalido"

\* C16: a row whose email cell is non-empty but malformed is counted as failed, is added
\* to the failed-emails list with the invalid-format reason, and creates no Persona and
\* no CodigoQR; an import of two student rows, one with a valid and one with a malformed
\* email, ends with exitosos = 1, fallidos = 1.
C16_CorreoMalformado ==
    [][/\ (FilaValidar /\ FilaActual.correo = SinPunto)
            => /\ carga'.fallidos = carga.fallidos + 1
               /\ carga'.exitosos = carga.exitosos
               /\ carga'.failedEmails =
                      Append(carga.failedEmails,
                             [fila |-> carga.index + 2, email |-> SinPunto,
                              reason |-> "Correo con formato invalido"])
               /\ carga'.index = carga.index + 1
               /\ carga'.pc = "fila"
               /\ UNCHANGED <<persona, codigoQR>>
       /\ (carga'.pc = "terminada" /\ carga'.eventos[Len(carga'.eventos)].type = "done"
           /\ DosEstudiantes(carga'))
            => LET done == carga'.eventos[Len(carga'.eventos)]
               IN  /\ done.exitosos = 1
                   /\ done.fallidos = 1
                   /\ Len(done.failedEmails) = 1
                   /\ done.failedEmails[1].email = SinPunto
                   /\ done.failedEmails[1].reason = "Correo con formato invalido"
                   /\ Len(persona') = 1
                   /\ Cardinality(DOMAIN codigoQR') = 1
      ]_vars

\* The two-row sheet was imported: the malformed row first, the valid student after it.
C16_Testigo ==
    /\ Terminada("done")
    /\ DosEstudiantes(carga)
    /\ carga.filas[1].correo = SinPunto
    /\ UltimoEvento.exitosos = 1
    /\ UltimoEvento.fallidos = 1
    /\ Len(persona) = 1

(***************************************************************************)
(* Properties of the session and role checks                               *)
(***************************************************************************)
\* An administrative action of a caller who is signed in but is no administrator.
AccionDeAdmin(p, usuario) ==
    \/ \E precio \in PreciosPedidos, aceptado \in BOOLEAN :
          ActualizarPrecio(p, usuario, precio, aceptado)
    \/ \E limite \in LimitesPedidos, aceptado \in BOOLEAN :
          ActualizarLimite(p, usuario, limite, aceptado)
    \/ SesionesAbiertas(p, usuario)
    \/ \E cajaId \in CajaIdsPedidos : BorrarLeer(p, usuario, cajaId)
    \/ \E cajaId \in CajaIdsPedidos : ForzarLeer(p, usuario, cajaId)

Contestado(p, status) == peticion'[p].pc = "respondida" /\ peticion'[p].resp.status = status

\* The keys that exist keep their values; a key that appears is precio_boleto or
\* limite_boletos with its default.
SoloValoresPorDefecto ==
    /\ \A k \in DOMAIN configuracion :
          k \in DOMAIN configuracion' /\ configuracion'[k] = configuracion[k]
    /\ \A k \in DOMAIN configuracion' \ DOMAIN configuracion :
          \/ k = PRECIO_KEY /\ configuracion'[k] = DEFAULT_PRICE
          \/ k = LIMIT_KEY /\ configuracion'[k] = DEFAULT_LIMIT

SeisTablasVacias ==
    /\ persona' = <<>>
    /\ codigoQR' = <<>>
    /\ ingreso' = <<>>
    /\ importacion' = <<>>
    /\ ventaAdicional' = <<>>
    /\ cajaTurno' = <<>>

SeisTablasIntactas == UNCHANGED <<persona, codigoQR, ingreso, importacion, ventaAdicional, cajaTurno>>

\* The phrase, with or without blanks around it.
FrasesCorrectas ==
    {<<"L", "I", "M", "P", "I", "A", "R", " ", "T", "O", "D", "O">>,
     <<" ", "L", "I", "M", "P", "I", "A", "R", " ", "T", "O", "D", "O", " ">>}

\* C18: POST /limpieza by an admin with the matching confirmation phrase deletes every
\* Persona, CodigoQR, Ingreso, Importacion, VentaAdicional and CajaTurno row as one
\* all-or-nothing step (all six tables are emptied or none is changed); with a
\* non-matching phrase, or for a non-admin caller, no row is deleted.
C18_LimpiezaTodoONada ==
    [][\A s \in Solicitudes, usuario \in Llamantes, confirmation \in Confirmaciones,
          resultado \in {"ok", "rollback", "directorios"}, ahora \in Ahoras :
          Limpiar(s, usuario, confirmation, resultado, ahora)
             => IF usuario = "admin@iste" /\ confirmation \in FrasesCorrectas
                THEN /\ SeisTablasVacias \/ SeisTablasIntactas
                     /\ solicitud'[s].resp.status = 200 => SeisTablasVacias
                     /\ resultado = "ok" => solicitud'[s].resp.status = 200
                ELSE /\ SeisTablasIntactas
                     /\ solicitud'[s].resp.status \in {400, 403}
      ]_vars

\* A cleanup answered success after removing rows of the six tables.
C18_Testigo ==
    \E s \in Solicitudes :
        /\ solicitud[s].pc = "fin"
        /\ solicitud[s].resp.status = 200
        /\ solicitud[s].resp.removed.personas > 0
        /\ solicitud[s].resp.removed.codigos > 0
        /\ solicitud[s].resp.removed.ingresos > 0
        /\ solicitud[s].resp.removed.importaciones > 0
        /\ solicitud[s].resp.removed.ventas > 0
        /\ solicitud[s].resp.removed.cajas > 0
        /\ persona = <<>> /\ codigoQR = <<>> /\ ingreso = <<>>
        /\ importacion = <<>> /\ ventaAdicional = <<>> /\ cajaTurno = <<>>

(***************************************************************************)
(* Properties of the issued codes                                          *)
(***************************************************************************)
UnCodigoMas == Cardinality(DOMAIN codigoQR') = Cardinality(DOMAIN codigoQR) + 1

\* C19: every issuance that passes input validation persists a token whose code differs
\* from the code of every existing token, and never fails because the generated code
\* collides with an existing one, whatever the timing of the issuance calls.
C19_CodigosSinColision ==
    [][/\ \A id \in DOMAIN codigoQR' \ DOMAIN codigoQR :
             \A i \in DOMAIN codigoQR : codigoQR'[id].codigo # codigoQR[i].codigo
       /\ \A s \in Solicitudes, esEstudiante \in BOOLEAN, ahora \in Ahoras :
             GenerarQR(s, esEstudiante, <<"1", "7">>, Entero(1), ahora, TRUE)
                => UnCodigoMas /\ solicitud'[s].resp.status = 200
       /\ \A p \in Trabajadores, cantidad \in 1..MaxCantidad, ahora \in Ahoras :
             (Generar(p, "caja1@iste", cantidad, ahora)
              /\ CajasActivas("caja1@iste", Rol("caja1@iste")) # {}
              /\ configuracion[LIMIT_KEY] = 0)
                => UnCodigoMas /\ peticion'[p].resp.status = 200
       /\ \A ahora \in Ahoras : FilaCodigo(ahora, TRUE) => UnCodigoMas
      ]_vars

(***************************************************************************)
(* Properties of PATCH /gestion-qr interleaved with POST /ingreso           *)
(***************************************************************************)
DentroDelCupo(tabla) == \A id \in DOMAIN tabla : tabla[id].usos_actual <= tabla[id].max_usos

C21_VentaSoloConCajaAbierta ==
    [][/\ \A p \in Trabajadores, usuario \in Usuarios, cantidad \in Cantidades :
             (GenerarLeer(p, usuario, cantidad) /\ cantidad > 0
                  /\ CajasActivas(usuario, Rol(usuario)) = {})
             => (Contestado(p, 400) /\ UNCHANGED <<codigoQR, ventaAdicional>>)
       /\ (Len(ventaAdicional') > Len(ventaAdicional))
             => LET venta == ventaAdicional'[Len(ventaAdicional')]
                IN  venta.cajaId \in DOMAIN cajaTurno /\ cajaTurno[venta.cajaId].abierto
      ]_vars

\* C22: a closed session stays as it was closed (abierto false, cerradoPor and cerradoAt
\* unchanged), and no session ever has more than one closing report sent.
C22_CierreUnaSolaVez ==
    [][\A id \in DOMAIN cajaTurno :
          /\ (~cajaTurno[id].abierto /\ id \in DOMAIN cajaTurno')
                => cajaTurno'[id] = cajaTurno[id]
          /\ (id \in DOMAIN reportes') => reportes'[id] <= 1
      ]_vars

\* C30: when a 'generate' request returns, with success or with an error, every token
\* it created is referenced by exactly one Sale, a Sale of the session the request found
\* open, with cantidad equal to the token's max_usos.
C30_TokenConSuVenta ==
    [][\A p \in Trabajadores :
          (peticion[p].accion = "generate" /\ peticion'[p].pc = "respondida")
          => \A id \in peticion[p].codigoIds :
                LET ventas == {j \in DOMAIN ventaAdicional' : ventaAdicional'[j].codigoId = id}
                IN  /\ Cardinality(ventas) = 1
                    /\ \A j \in ventas :
                          /\ ventaAdicional'[j].cajaId = peticion[p].caja
                          /\ ventaAdicional'[j].cantidad = codigoQR'[id].max_usos
      ]_vars

(***************************************************************************)
(* Properties of "deleteClosure" on a session with redeemed tokens         *)
(***************************************************************************)
\* The session of the request, every Sale it read and every token of those Sales remain.
CierreEntero(p) ==
    /\ peticion[p].caja \in DOMAIN cajaTurno'
    /\ \A id \in peticion[p].codigoIds :
          /\ id \in DOMAIN codigoQR'
          /\ \E j \in DOMAIN ventaAdicional' :
                /\ ventaAdicional'[j].codigoId = id
                /\ ventaAdicional'[j].cajaId = peticion[p].caja

\* C23: when a deleteClosure request ends, either the session, all its Sales and all
\* their tokens are removed or all of them remain, also when one of the tokens has been
\* redeemed; and no Ingreso row ever references a token that is gone.
C23_BorradoTodoONada ==
    [][/\ \A p \in Trabajadores :
             (peticion[p].accion = "deleteClosure" /\ peticion'[p].pc = "respondida")
             => (CierreBorrado(p) \/ CierreEntero(p))
       /\ \A i \in DOMAIN ingreso' : ingreso'[i].codigoqrId \in DOMAIN codigoQR'
      ]_vars

(***************************************************************************)
(* Properties of what an operator reads and changes                        *)
(***************************************************************************)
\* The session id was opened by usuario.
Propia(id, usuario) == id \in DOMAIN cajaTurno' /\ cajaTurno'[id].abiertoPor = usuario

\* C24: for a caller whose role is not admin, GET, closures and details show, and open,
\* close and generate touch, only sessions whose abiertoPor is the caller's email; a
\* non-admin close never closes and a non-admin generate never adds a Sale to another
\* operator's session, and details of another operator's closure answers 403.
C24_AlcanceDelOperador ==
    [][\A p \in Trabajadores, usuario \in Operadores :
          (Rol(usuario) # "admin") =>
             /\ Consultar(p, usuario) =>
                   /\ peticion'[p].resp.caja # 0 => Propia(peticion'[p].resp.caja, usuario)
                   /\ \A id \in peticion'[p].resp.historial \cup peticion'[p].resp.cierres :
                         Propia(id, usuario)
             /\ Cierres(p, usuario) =>
                   \A id \in peticion'[p].resp.cierres : Propia(id, usuario)
             /\ \A cajaId \in CajaIdsPedidos :
                   Detalles(p, usuario, cajaId) =>
                      /\ (peticion'[p].resp.status = 200) => Propia(cajaId, usuario)
                      /\ (cajaId \in DOMAIN cajaTurno /\ ~cajaTurno[cajaId].abierto
                             /\ cajaTurno[cajaId].abiertoPor # usuario)
                         => Contestado(p, 403)
             /\ (peticion[p].usuario = usuario /\ peticion[p].accion \in {"open", "close"}) =>
                   \A id \in DOMAIN cajaTurno' :
                      (id \notin DOMAIN cajaTurno \/ cajaTurno'[id] # cajaTurno[id])
                      => Propia(id, usuario)
             /\ \A cantidad \in 1..MaxCantidad, ahora \in Ahoras :
                   Generar(p, usuario, cantidad, ahora) =>
                      \A j \in DOMAIN ventaAdicional' \ DOMAIN ventaAdicional :
                         Propia(ventaAdicional'[j].cajaId, usuario)
      ]_vars

(***************************************************************************)
(* Properties of the batches of emails of POST /importar                   *)
(***************************************************************************)
EventosDe(type) == {i \in DOMAIN carga.eventos : carga.eventos[i].type = type}

\* The event after the i-th is a 'cooldown'.
PausaTras(i) == i < Len(carga.eventos) /\ carga.eventos[i + 1].type = "cooldown"

\* A 'cooldown' with its pause of 20 seconds follows an email attempt exactly when the
\* attempts have reached a positive multiple of 150 and are fewer than studentsToEmail.
PausaExactamente ==
    /\ \A i \in EventosDe("progress") :
          PausaTras(i) <=> /\ carga.eventos[i].processed > 0
                           /\ carga.eventos[i].processed % EMAIL_BATCH_SIZE = 0
                           /\ carga.eventos[i].processed < carga.eventos[i].total
    /\ \A i \in EventosDe("cooldown") :
          /\ i - 1 \in EventosDe("progress")
          /\ carga.eventos[i].delayMs = EMAIL_BATCH_DELAY_MS

\* No 151 consecutive email attempts without a 'cooldown' between them.
PausaEntreLotes ==
    \A i \in EventosDe("progress"), j \in EventosDe("progress") :
        (carga.eventos[j].processed = carga.eventos[i].processed + EMAIL_BATCH_SIZE)
        => \E k \in EventosDe("cooldown") : i < k /\ k < j

\* No 'cooldown' follows the last email attempt.
SinPausaFinal ==
    (carga.pc = "terminada")
    => \A k \in EventosDe("cooldown") : \E j \in EventosDe("progress") : k < j

\* C25: a 'cooldown' event with the 20-second pause is emitted exactly when the email
\* attempts reach a positive multiple of 150 while fewer attempts than studentsToEmail
\* have been made; no 151 consecutive attempts go without a cooldown between them, and
\* no cooldown follows the last email attempt.
C25_PausaEntreLotes == PausaExactamente /\ PausaEntreLotes /\ SinPausaFinal

(***************************************************************************)
(* Properties of the event stream of POST /importar                        *)
(***************************************************************************)
\* The positions of the 'progress' events up to the i-th.
ProgresosHasta(i) == {j \in EventosDe("progress") : j <= i}

\* C26: the stream starts with exactly one 'start' event; it ends with exactly one
\* terminal event, 'done' or 'error', and nothing follows it; each 'progress' event
\* carries a processed count one more than the previous 'progress' event and never more
\* than its total, which is studentsToEmail.
C26_FlujoDeEventos ==
    LET eventos == carga.eventos
        finales == EventosDe("done") \cup EventosDe("error")
    IN  /\ (carga.pc # "inicio") => (eventos # <<>> /\ EventosDe("start") = {1})
        /\ (carga.pc = "terminada") <=> (finales = {Len(eventos)} /\ eventos # <<>>)
        /\ (carga.pc # "terminada") => finales = {}
        /\ \A i \in EventosDe("progress") :
              /\ eventos[i].processed = Cardinality(ProgresosHasta(i))
              /\ eventos[i].processed <= eventos[i].total
              /\ eventos[i].total = carga.studentsToEmail

\* An import of two students has ended: 'start', two 'progress' events, 'done'.
C26_Testigo ==
    /\ carga.pc = "terminada"
    /\ Cardinality(EventosDe("progress")) = 2
    /\ carga.eventos[1].type = "start"
    /\ carga.eventos[Len(carga.eventos)].type = "done"

(***************************************************************************)
(* Properties of an import the client leaves                               *)
(***************************************************************************)
\* C27: when the client disconnects in the middle of an import, the Persona and CodigoQR
\* rows already committed remain, and the Importacion log row is updated with the
\* exitosos and fallidos counted up to the interruption.
C27_BitacoraAlCorte ==
    [][/\ Len(persona') >= Len(persona)
       /\ \A id \in DOMAIN codigoQR : id \in DOMAIN codigoQR' /\ codigoQR'[id] = codigoQR[id]
       /\ (carga.cliente # "conectado" /\ importacion' # importacion)
             => /\ importacion'[carga.importLog].exitosos = carga.alCorte.exitosos
                /\ importacion'[carga.importLog].fallidos = carga.alCorte.fallidos
      ]_vars

(***************************************************************************)
(* Properties of the lazy creation of the configuration                    *)
(***************************************************************************)
\* The worker p is inside ensurePrecioUnitario or ensureLimiteBoletos.
Asegurando(p) == peticion[p].pc \in {"precio_crear", "limite_buscar", "limite_crear"}

\* C28: after every authenticated GET or POST the keys precio_boleto and limite_boletos
\* exist; the lazy creation gives an absent key its default (5, 0) and never changes the
\* value of a key that exists; and no request fails because of the lazy creation, also
\* when two first requests meet an empty configuration together.
C28_ConfiguracionPerezosa ==
    [][\A p \in Trabajadores :
          /\ (peticion'[p].pc = "respondida" /\ peticion[p].pc # "respondida" /\ ~SinSesion(p))
                => {PRECIO_KEY, LIMIT_KEY} \subseteq DOMAIN configuracion'
          /\ (Asegurando(p) /\ peticion'[p] # peticion[p])
                => /\ \A k \in DOMAIN configuracion :
                         k \in DOMAIN configuracion' /\ configuracion'[k] = configuracion[k]
                   /\ \A k \in DOMAIN configuracion' \ DOMAIN configuracion :
                         configuracion'[k] = (IF k = PRECIO_KEY THEN DEFAULT_PRICE
                                              ELSE DEFAULT_LIMIT)
                   /\ ~Contestado(p, 500)
      ]_vars

(***************************************************************************)
(* Properties of the totals of GET /dashboard                              *)
(***************************************************************************)
RECURSIVE SumaTotalIngresos(_, _)
SumaTotalIngresos(registros, k) ==
    IF k = 0 THEN 0 ELSE registros[k].totalIngresos + SumaTotalIngresos(registros, k - 1)

\* The Ingreso rows of a token.
IngresosDe(id) == {i \in DOMAIN ingreso : ingreso[i].codigoqrId = id}

\* C29: in the dashboard summary total = estudiantes + familiares + adicionales is the
\* number of Ingreso rows scanned and the sum of totalIngresos over the grouped entries;
\* each token read has exactly one grouped entry, whose ultimaLectura is the latest fecha
\* of its rows, and no entry is of a token that was not read.
C29_TotalesDelDashboard ==
    [][\A s \in Solicitudes :
          Dashboard(s) =>
             LET resumen == solicitud'[s].resp.resumen
                 grupos == resumen.ingresosAgrupados
             IN  /\ resumen.total = resumen.estudiantes + resumen.familiares + resumen.adicionales
                 /\ resumen.total = Len(ingreso)
                 /\ resumen.total = SumaTotalIngresos(grupos, Len(grupos))
                 /\ \A id \in Leidos :
                       /\ Cardinality({j \in DOMAIN grupos : grupos[j].id_codigo = id}) = 1
                       /\ \A j \in DOMAIN grupos :
                             grupos[j].id_codigo = id
                                => /\ grupos[j].ultimaLectura = Max(IngresosDe(id))
                                   /\ grupos[j].totalIngresos = Redenciones(id)
                 /\ \A j \in DOMAIN grupos : grupos[j].id_codigo \in Leidos
      ]_vars

\* A summary of three redemptions was answered: two tokens, one of them an unsold
\* student token read twice with a row of the other token in between.
C29_Testigo ==
    \E s \in Solicitudes :
        /\ solicitud[s].pc = "fin"
        /\ solicitud[s].resp.resumen.total = 3
        /\ Len(solicitud[s].resp.resumen.ingresosAgrupados) = 2
        /\ \E id \in Leidos :
              /\ ~ConVenta(id) /\ codigoQR[id].tipo_qr = "est"
              /\ IngresosDe(id) = {1, 3}

====
